---- MODULE Spec2Model ----
(***************************************************************************)
(* A model of Render3D (src/render3d.ts): the CPU triangle pipeline with   *)
(* vertex and fragment shaders, a framebuffer of palette indices and a     *)
(* depth buffer.                                                           *)
(*                                                                         *)
(* Numbers.  A TypeScript number is modelled as an exact rational <<n, d>> *)
(* in lowest terms with d > 0; <<1, 0>> is +Infinity, <<-1, 0>> is         *)
(* -Infinity and <<0, 0>> is NaN.  Rounding of IEEE doubles is not         *)
(* modelled: every arithmetic operation is exact.                          *)
(***************************************************************************)
EXTENDS Integers, Sequences, FiniteSets, TLC

VARIABLES
    buffer,       \* Renderer.buffer: pixel index y*width+x -> palette index
    depthBuffer,  \* Renderer.depthBuffer: pixel index -> number
    vertices,     \* Geometry.vertices of the geometry under construction
    indices,      \* Geometry.indices of the geometry under construction
    lastOp,       \* the operation that ran last
    returned,     \* the value the last addVertex call returned
    fault,        \* whether the last render() call threw
    fragCalls,    \* fragment shader invocations of the last render() call
    hist,         \* the render() calls since the last clear(), in order: the draw
                  \* call, whether it threw, and its events
    frags,        \* pixel index -> the fragments that covered it since clear()
    alt,          \* the buffers had the two draw calls since clear() run in the other order
    dirtyCleared, \* the last clear() found a buffer cell that was not clear, and
                  \* at most one render() was called since
    call          \* the last call of a pure function: its name, argument and result

vars == <<buffer, depthBuffer, vertices, indices, lastOp, returned, fault,
          fragCalls, hist, frags, alt, dirtyCleared, call>>

----------------------------------------------------------------------------
(* Bounds of the model *)

Width == 4
Height == 3
MaxDraws == 2
MaxVerts == 3
MaxTris == 1

----------------------------------------------------------------------------
(* Numbers *)

RECURSIVE GCD(_, _)
GCD(a, b) == IF b = 0 THEN a ELSE GCD(b, a % b)

AbsInt(n) == IF n < 0 THEN -n ELSE n
SignInt(n) == IF n < 0 THEN -1 ELSE IF n > 0 THEN 1 ELSE 0

NaN == <<0, 0>>
Infinity == <<1, 0>>

\* n/d in lowest terms; d = 0 gives an infinity or NaN, as a division by zero does.
Rat(n, d) ==
    IF d = 0 THEN <<SignInt(n), 0>>
    ELSE LET g == GCD(AbsInt(n), AbsInt(d))
             s == IF d < 0 THEN -1 ELSE 1
         IN  <<(s * n) \div g, (s * d) \div g>>

I(n) == <<n, 1>>

IsNaN(a) == a[1] = 0 /\ a[2] = 0
IsFinite(a) == a[2] # 0

\* F(a) and F(a, b) with the arguments evaluated first, once each
Val1(a, F(_)) == CHOOSE r \in {F(x) : x \in {a}} : TRUE
Val2(a, b, F(_, _)) == CHOOSE r \in {F(x, y) : x \in {a}, y \in {b}} : TRUE

AddV(a, b) ==
    IF IsNaN(a) \/ IsNaN(b) THEN NaN
    ELSE IF IsFinite(a) /\ IsFinite(b) THEN Rat(a[1] * b[2] + b[1] * a[2], a[2] * b[2])
    ELSE IF ~IsFinite(a) /\ ~IsFinite(b) THEN (IF a[1] = b[1] THEN a ELSE NaN)
    ELSE IF IsFinite(a) THEN b ELSE a

MulV(a, b) ==
    IF IsNaN(a) \/ IsNaN(b) THEN NaN
    ELSE IF IsFinite(a) /\ IsFinite(b) THEN Rat(a[1] * b[1], a[2] * b[2])
    ELSE <<SignInt(a[1]) * SignInt(b[1]), 0>>

NegV(a) == <<-a[1], a[2]>>

DivV(a, b) ==
    IF IsNaN(a) \/ IsNaN(b) THEN NaN
    ELSE IF IsFinite(a) /\ IsFinite(b) THEN Rat(a[1] * b[2], a[2] * b[1])
    ELSE IF IsFinite(b) THEN <<a[1] * (IF b[1] < 0 THEN -1 ELSE 1), 0>>
    ELSE IF IsFinite(a) THEN I(0) ELSE NaN

LtV(a, b) ==
    IF IsNaN(a) \/ IsNaN(b) THEN FALSE
    ELSE IF IsFinite(a) /\ IsFinite(b) THEN a[1] * b[2] < b[1] * a[2]
    ELSE IF ~IsFinite(a) /\ ~IsFinite(b) THEN a[1] < b[1]
    ELSE IF IsFinite(a) THEN b[1] > 0 ELSE a[1] < 0

GeV(a, b) == ~IsNaN(a) /\ ~IsNaN(b) /\ ~LtV(a, b)

AbsV(a) == <<AbsInt(a[1]), a[2]>>

FloorV(a) == IF IsFinite(a) THEN I(a[1] \div a[2]) ELSE a

CeilV(a) == IF IsFinite(a) THEN I(-((-a[1]) \div a[2])) ELSE a

MaxV(a, b) == IF IsNaN(a) \/ IsNaN(b) THEN NaN ELSE IF LtV(a, b) THEN b ELSE a

MinV(a, b) == IF IsNaN(a) \/ IsNaN(b) THEN NaN ELSE IF LtV(b, a) THEN b ELSE a

\* a + b
Add(a, b) == Val2(a, b, AddV)

\* a * b
Mul(a, b) == Val2(a, b, MulV)

\* -a
Neg(a) == Val1(a, NegV)

\* a - b
Sub(a, b) == Add(a, Neg(b))

\* a / b
Div(a, b) == Val2(a, b, DivV)

\* a < b; false when either is NaN
Lt(a, b) == Val2(a, b, LtV)

\* a >= b; false when either is NaN
Ge(a, b) == Val2(a, b, GeV)

MathAbs(a) == Val1(a, AbsV)

MathFloor(a) == Val1(a, FloorV)

MathCeil(a) == Val1(a, CeilV)

MathMax(a, b) == Val2(a, b, MaxV)

MathMin(a, b) == Val2(a, b, MinV)

MathMax3(a, b, c) == MathMax(MathMax(a, b), c)

MathMin3(a, b, c) == MathMin(MathMin(a, b), c)

\* a > b; false when either is NaN
Gt(a, b) == Lt(b, a)

\* The largest k in lo .. hi with k * k <= m, by bisection
RECURSIVE RootBetween(_, _, _)
RootBetween(m, lo, hi) ==
    IF lo >= hi THEN lo
    ELSE LET mid == (lo + hi + 1) \div 2
         IN  IF mid * mid <= m THEN RootBetween(m, mid, hi) ELSE RootBetween(m, lo, mid - 1)

\* The number of decimal places kept of the root of an integer m that is not
\* a square, as a power of ten
RootScale(m) == IF m <= 2000 THEN 1000 ELSE IF m <= 200000 THEN 100 ELSE 10

\* Math.sqrt: exact where the root is rational, and the root cut to a few
\* decimal places where it is not; NaN for a negative argument.
SqrtV(a) ==
    IF IsNaN(a) \/ a[1] < 0 THEN NaN
    ELSE IF ~IsFinite(a) THEN a
    ELSE LET m == a[1] * a[2]
             r == RootBetween(m, 0, 46340)
         IN  IF r * r = m THEN Rat(r, a[2])
             ELSE LET s == RootScale(m)
                  IN  Rat(RootBetween(m * s * s, 0, 46340), a[2] * s)

MathSqrt(a) == Val1(a, SqrtV)

\* Math.tan, on the angles drawn on.  An angle is held in units of pi: 1/6 is
\* pi/6.
TanV(a) ==
    CASE a = Rat(1, 8) -> Sub(MathSqrt(I(2)), I(1))
      [] a = Rat(1, 6) -> Div(I(1), MathSqrt(I(3)))
      [] a = Rat(1, 4) -> I(1)
      [] a = Rat(1, 3) -> MathSqrt(I(3))

MathTan(a) == Val1(a, TanV)

----------------------------------------------------------------------------
(* Vec3, Vec4, Mat4 *)

Vec3(x, y, z) == [x |-> x, y |-> y, z |-> z]

Vec4(x, y, z, w) == [x |-> x, y |-> y, z |-> z, w |-> w]

\* new Vec3(): the defaults of the constructor
Vec3Default == Vec3(I(0), I(0), I(0))

\* new Vec4(): the defaults of the constructor
Vec4Default == Vec4(I(0), I(0), I(0), I(1))

\* Mat4.m, a sequence of 16 numbers; m[k] of the code is m[k + 1] here.
Identity ==
    << I(1), I(0), I(0), I(0),
       I(0), I(1), I(0), I(0),
       I(0), I(0), I(1), I(0),
       I(0), I(0), I(0), I(1) >>

Translate(x, y, z) == [Identity EXCEPT ![4] = x, ![8] = y, ![12] = z]

MultiplyVec4V(m, v) ==
    Vec4(Add(Add(Add(Mul(m[1], v.x), Mul(m[2], v.y)), Mul(m[3], v.z)), Mul(m[4], v.w)),
         Add(Add(Add(Mul(m[5], v.x), Mul(m[6], v.y)), Mul(m[7], v.z)), Mul(m[8], v.w)),
         Add(Add(Add(Mul(m[9], v.x), Mul(m[10], v.y)), Mul(m[11], v.z)), Mul(m[12], v.w)),
         Add(Add(Add(Mul(m[13], v.x), Mul(m[14], v.y)), Mul(m[15], v.z)), Mul(m[16], v.w)))

MultiplyVec4(m, v) == Val2(m, v, MultiplyVec4V)

\* Vec3.sub
Vec3Sub(a, b) == Vec3(Sub(a.x, b.x), Sub(a.y, b.y), Sub(a.z, b.z))

\* Vec3.dot
Vec3Dot(a, b) == Add(Add(Mul(a.x, b.x), Mul(a.y, b.y)), Mul(a.z, b.z))

\* Vec3.cross
Vec3CrossV(a, b) ==
    Vec3(Sub(Mul(a.y, b.z), Mul(a.z, b.y)),
         Sub(Mul(a.z, b.x), Mul(a.x, b.z)),
         Sub(Mul(a.x, b.y), Mul(a.y, b.x)))

Vec3Cross(a, b) == Val2(a, b, Vec3CrossV)

\* Vec3.normalize with a zero vector divided by its length
NormalizeUnguarded(v) ==
    Val1(MathSqrt(Add(Add(Mul(v.x, v.x), Mul(v.y, v.y)), Mul(v.z, v.z))),
         LAMBDA len : Vec3(Div(v.x, len), Div(v.y, len), Div(v.z, len)))

\* Vec3.normalize
NormalizeV(v) ==
    Val1(MathSqrt(Add(Add(Mul(v.x, v.x), Mul(v.y, v.y)), Mul(v.z, v.z))),
         LAMBDA len : IF Gt(len, I(0))
                      THEN Vec3(Div(v.x, len), Div(v.y, len), Div(v.z, len))
                      ELSE Vec3Default)

Normalize(v) == Val1(v, NormalizeV)

\* One entry of Mat4.multiply: sum over k of a.m[i*4+k] * b.m[k*4+j]
MultiplyEntry(a, b, i, j) ==
    Add(Add(Add(Add(I(0), Mul(a[i * 4 + 1], b[j + 1])),
                Mul(a[i * 4 + 2], b[4 + j + 1])),
            Mul(a[i * 4 + 3], b[8 + j + 1])),
        Mul(a[i * 4 + 4], b[12 + j + 1]))

\* Mat4.multiply reading its left operand by columns
MultiplyTransposed(a, b) ==
    [n \in 1 .. 16 |->
        LET i == (n - 1) \div 4
            j == (n - 1) % 4
        IN  Add(Add(Add(Mul(a[i + 1], b[j + 1]), Mul(a[4 + i + 1], b[4 + j + 1])),
                    Mul(a[8 + i + 1], b[8 + j + 1])),
                Mul(a[12 + i + 1], b[12 + j + 1]))]

\* Mat4.multiply
MultiplyV(a, b) ==
    [n \in 1 .. 16 |-> MultiplyEntry(a, b, (n - 1) \div 4, (n - 1) % 4)]

Multiply(a, b) == Val2(a, b, MultiplyV)

\* Mat4.perspective with the depth row negated
PerspectiveFlipped(fov, aspect, near, far) ==
    LET f == Div(I(1), MathTan(Div(fov, I(2))))
        nf == Div(I(1), Sub(near, far))
    IN  [Identity EXCEPT ![1] = Div(f, aspect),
                         ![6] = f,
                         ![11] = Neg(Mul(Add(far, near), nf)),
                         ![12] = Neg(Mul(Mul(Mul(I(2), far), near), nf)),
                         ![15] = I(-1),
                         ![16] = I(0)]

\* Mat4.perspective; fov in units of pi
Perspective(fov, aspect, near, far) ==
    LET f == Div(I(1), MathTan(Div(fov, I(2))))
        nf == Div(I(1), Sub(near, far))
    IN  [Identity EXCEPT ![1] = Div(f, aspect),
                         ![6] = f,
                         ![11] = Mul(Add(far, near), nf),
                         ![12] = Mul(Mul(Mul(I(2), far), near), nf),
                         ![15] = I(-1),
                         ![16] = I(0)]

\* Mat4.lookAt
LookAtV(eye, z, x) ==
    Val1(Vec3Cross(z, x),
         LAMBDA y :
            [Identity EXCEPT ![1] = x.x, ![2] = x.y, ![3] = x.z, ![4] = Neg(Vec3Dot(x, eye)),
                             ![5] = y.x, ![6] = y.y, ![7] = y.z, ![8] = Neg(Vec3Dot(y, eye)),
                             ![9] = z.x, ![10] = z.y, ![11] = z.z, ![12] = Neg(Vec3Dot(z, eye)),
                             ![16] = I(1)])

LookAt(eye, target, up) ==
    Val1(Normalize(Vec3Sub(eye, target)),
         LAMBDA z : Val1(Normalize(Vec3Cross(up, z)), LAMBDA x : LookAtV(eye, z, x)))

----------------------------------------------------------------------------
(* Shader contract *)

\* The value of a named attribute or varying.  kind is what typeof/instanceof
\* of the code tells apart: "number", "Vec3", or "undefined" for a name the
\* object does not hold.
Num(r) == [kind |-> "number", num |-> r, vec |-> Vec3Default]
V3(v) == [kind |-> "Vec3", num |-> NaN, vec |-> v]
Undefined == [kind |-> "undefined", num |-> NaN, vec |-> Vec3Default]

\* obj[key]
Get(obj, key) == IF key \in DOMAIN obj THEN obj[key] ELSE Undefined

\* The number an operand of * or + is converted to: a Vec3 object and
\* undefined both convert to NaN.
ToNumber(val) == IF val.kind = "number" THEN val.num ELSE NaN

\* An object without named values.
NoExtras == [k \in {} |-> Undefined]

\* VertexAttributes: position, and the other named values in extra.
Attrs(pos, extra) == [position |-> pos, extra |-> extra]

\* The result of a call that may throw.
Ok(v) == [threw |-> FALSE, val |-> v]
Threw == [threw |-> TRUE, val |-> 0]

\* VertexAt with the index clamped into the vertex buffer
VertexAtClamped(geometry, i) ==
    IF Len(geometry.vertices) = 0
    THEN [defined |-> FALSE, attrs |-> Attrs(Vec3Default, NoExtras)]
    ELSE [defined |-> TRUE,
          attrs |-> geometry.vertices[IF i < 0 THEN 1
                                      ELSE IF i >= Len(geometry.vertices)
                                      THEN Len(geometry.vertices) ELSE i + 1]]

\* geometry.vertices[i]: undefined outside 0 .. length-1.
VertexAt(geometry, i) ==
    IF i >= 0 /\ i < Len(geometry.vertices)
    THEN [defined |-> TRUE, attrs |-> geometry.vertices[i + 1]]
    ELSE [defined |-> FALSE, attrs |-> Attrs(Vec3Default, NoExtras)]

\* The vertex shaders drawn on.  "mvp" is the shader of the README and of the
\* demo: it reads attrs.position, which throws a TypeError on undefined attrs,
\* applies model, view and projection, and hands the other attributes on as
\* varyings.  "fixed" never reads its attributes.
VertexShaders == {"mvp", "fixed"}

VertShader(vs, vertex, uniforms) ==
    IF vs = "fixed" THEN Ok([position |-> Vec4Default, vary |-> NoExtras])
    ELSE IF ~vertex.defined THEN Threw
    ELSE LET a == vertex.attrs
             pos == Vec4(a.position.x, a.position.y, a.position.z, I(1))
             t1 == MultiplyVec4(uniforms.modelMatrix, pos)
             t2 == MultiplyVec4(uniforms.viewMatrix, t1)
             t3 == MultiplyVec4(uniforms.projectionMatrix, t2)
         IN  Ok([position |-> t3, vary |-> a.extra])

\* The fragment shaders drawn on.  "flat" returns the custom uniform color,
\* "shade" returns the scalar varying shade, "normal" is the normal
\* visualisation of the README, which reads varying.normal.y and throws a
\* TypeError when varying.normal is undefined.
FragmentShaders == {"flat", "shade", "normal"}

FragShader(fs, varying, uniforms) ==
    IF fs = "flat" THEN Ok(uniforms.color)
    ELSE IF fs = "shade" THEN Ok(ToNumber(Get(varying.vary, "shade")))
    ELSE LET n == Get(varying.vary, "normal") IN
         IF n.kind = "undefined" THEN Threw
         ELSE LET ny == IF n.kind = "Vec3" THEN n.vec.y ELSE NaN
                  shade == Mul(Add(ny, I(1)), Rat(1, 2))
              IN  Ok(Sub(I(15), MathFloor(Mul(shade, I(15)))))

----------------------------------------------------------------------------
(* Geometry *)

\* addVertex returning the length after the push
AddVertexOpLength(geometry, attrs) ==
    LET vs == Append(geometry.vertices, attrs)
    IN  [geometry |-> [geometry EXCEPT !.vertices = vs], result |-> Len(vs)]

\* addVertex: the vertex buffer after the push, and the index returned
AddVertexOp(geometry, attrs) ==
    LET vs == Append(geometry.vertices, attrs)
    IN  [geometry |-> [geometry EXCEPT !.vertices = vs], result |-> Len(vs) - 1]

\* addTriangle: pushes the three indices as they are
AddTriangleOp(geometry, i0, i1, i2) ==
    [geometry EXCEPT !.indices = @ \o <<i0, i1, i2>>]

EmptyGeometry == [vertices |-> <<>>, indices |-> <<>>]

----------------------------------------------------------------------------
(* Renderer *)

NumPixels == Width * Height

\* The buffers as the constructor and clear() leave them
ClearBuffer == [i \in 0 .. NumPixels - 1 |-> 0]
ClearDepth == [i \in 0 .. NumPixels - 1 |-> Infinity]

\* perspectiveDivide guarding only w = 0
PerspectiveDivideZeroOnly(v) ==
    IF v.w = I(0) THEN Vec3(v.x, v.y, v.z)
    ELSE Vec3(Div(v.x, v.w), Div(v.y, v.w), Div(v.z, v.w))

PerspectiveDivideV(v) ==
    IF Lt(MathAbs(v.w), Rat(1, 10000)) THEN Vec3(v.x, v.y, v.z)
    ELSE Vec3(Div(v.x, v.w), Div(v.y, v.w), Div(v.z, v.w))

PerspectiveDivide(v) == Val1(v, PerspectiveDivideV)

\* toScreen without the shift of NDC -1 .. 1 to 0 .. 2
ToScreenUnshifted(ndc) ==
    [x |-> MathFloor(Mul(Mul(ndc.x, Rat(1, 2)), I(Width))),
     y |-> MathFloor(Mul(Mul(Neg(ndc.y), Rat(1, 2)), I(Height))),
     z |-> ndc.z]

\* toScreen without the flip of y
ToScreenNoFlip(ndc) ==
    [x |-> MathFloor(Mul(Mul(Add(ndc.x, I(1)), Rat(1, 2)), I(Width))),
     y |-> MathFloor(Mul(Mul(Add(ndc.y, I(1)), Rat(1, 2)), I(Height))),
     z |-> ndc.z]

ToScreenV(ndc) ==
    [x |-> MathFloor(Mul(Mul(Add(ndc.x, I(1)), Rat(1, 2)), I(Width))),
     y |-> MathFloor(Mul(Mul(Sub(I(1), ndc.y), Rat(1, 2)), I(Height))),
     z |-> ndc.z]

ToScreen(ndc) == Val1(ndc, ToScreenV)

\* barycentric answering a degenerate triangle with weights of 0
BarycentricZeros(x, y, p0, p1, p2) ==
    LET v0x == Sub(p1.x, p0.x)
        v0y == Sub(p1.y, p0.y)
        v1x == Sub(p2.x, p0.x)
        v1y == Sub(p2.y, p0.y)
        v2x == Sub(I(x), p0.x)
        v2y == Sub(I(y), p0.y)
        denom == Sub(Mul(v0x, v1y), Mul(v1x, v0y))
    IN  IF Lt(MathAbs(denom), Rat(1, 1000)) THEN [u |-> I(0), v |-> I(0), w |-> I(0)]
        ELSE LET v == Div(Sub(Mul(v2x, v1y), Mul(v1x, v2y)), denom)
                 w == Div(Sub(Mul(v0x, v2y), Mul(v2x, v0y)), denom)
                 u == Sub(Sub(I(1), v), w)
             IN  [u |-> u, v |-> v, w |-> w]

\* barycentric dividing by the absolute value of denom
BarycentricAbs(x, y, p0, p1, p2) ==
    LET v0x == Sub(p1.x, p0.x)
        v0y == Sub(p1.y, p0.y)
        v1x == Sub(p2.x, p0.x)
        v1y == Sub(p2.y, p0.y)
        v2x == Sub(I(x), p0.x)
        v2y == Sub(I(y), p0.y)
        denom == Sub(Mul(v0x, v1y), Mul(v1x, v0y))
    IN  IF Lt(MathAbs(denom), Rat(1, 1000)) THEN [u |-> I(-1), v |-> I(-1), w |-> I(-1)]
        ELSE LET v == Div(Sub(Mul(v2x, v1y), Mul(v1x, v2y)), MathAbs(denom))
                 w == Div(Sub(Mul(v0x, v2y), Mul(v2x, v0y)), MathAbs(denom))
                 u == Sub(Sub(I(1), v), w)
             IN  [u |-> u, v |-> v, w |-> w]

Barycentric(x, y, p0, p1, p2) ==
    LET v0x == Sub(p1.x, p0.x)
        v0y == Sub(p1.y, p0.y)
        v1x == Sub(p2.x, p0.x)
        v1y == Sub(p2.y, p0.y)
        v2x == Sub(I(x), p0.x)
        v2y == Sub(I(y), p0.y)
        denom == Sub(Mul(v0x, v1y), Mul(v1x, v0y))
    IN  IF Lt(MathAbs(denom), Rat(1, 1000)) THEN [u |-> I(-1), v |-> I(-1), w |-> I(-1)]
        ELSE LET v == Div(Sub(Mul(v2x, v1y), Mul(v1x, v2y)), denom)
                 w == Div(Sub(Mul(v0x, v2y), Mul(v2x, v0y)), denom)
                 u == Sub(Sub(I(1), v), w)
             IN  [u |-> u, v |-> v, w |-> w]

\* Blend giving the first value the weight of the second
BlendSwapped(a0, a1, a2, bary) ==
    Add(Add(Mul(a0, bary.v), Mul(a1, bary.u)), Mul(a2, bary.w))

\* val0 * bary.u + val1 * bary.v + val2 * bary.w
Blend(a0, a1, a2, bary) ==
    Add(Add(Mul(a0, bary.u), Mul(a1, bary.v)), Mul(a2, bary.w))

\* val.x, val.y, val.z of a value that is not undefined: a number has no such
\* property, and the undefined read converts to NaN.
Component(val, c) == IF val.kind = "Vec3" THEN val.vec[c] ELSE NaN

\* The loop body of interpolateVarying for one key of v0: the value stored
\* under the key; kind "undefined" when nothing is stored.
InterpolateKey(val0, val1, val2, bary) ==
    IF val0.kind = "number"
    THEN Num(Blend(val0.num, ToNumber(val1), ToNumber(val2), bary))
    ELSE IF val0.kind = "Vec3"
    THEN V3(Vec3(Blend(val0.vec.x, Component(val1, "x"), Component(val2, "x"), bary),
                 Blend(val0.vec.y, Component(val1, "y"), Component(val2, "y"), bary),
                 Blend(val0.vec.z, Component(val1, "z"), Component(val2, "z"), bary)))
    ELSE Undefined

\* Reading val1.x or val2.x of an undefined val1 or val2 throws a TypeError.
InterpolateThrows(v0, v1, v2) ==
    \E key \in DOMAIN v0.vary :
        /\ v0.vary[key].kind = "Vec3"
        /\ \/ Get(v1.vary, key).kind = "undefined"
           \/ Get(v2.vary, key).kind = "undefined"

InterpolateVarying(v0, v1, v2, bary) ==
    IF InterpolateThrows(v0, v1, v2) THEN Threw
    ELSE LET keys == {k \in DOMAIN v0.vary : v0.vary[k].kind \in {"number", "Vec3"}}
         IN  Ok([position |-> Vec4Default,
                 vary |-> [k \in keys |->
                              InterpolateKey(v0.vary[k], Get(v1.vary, k), Get(v2.vary, k), bary)]])

\* ClampColor without the upper clamp
ClampColorNoMin(color) == MathMax(I(0), MathFloor(color))

\* ClampColor rounding up
ClampColorCeil(color) == MathMax(I(0), MathMin(I(15), MathCeil(color)))

\* Math.max(0, Math.min(15, Math.floor(color)))
ClampColor(color) == MathMax(I(0), MathMin(I(15), MathFloor(color)))

\* Image.setPixel of the host: the cell holds its argument as an integer
\* (NaN converts to 0).
ToInt(c) == IF IsFinite(c) THEN c[1] \div c[2] ELSE 0

SetPixel(buf, x, y, c) == [buf EXCEPT ![y * Width + x] = ToInt(c)]

\* DepthTest with the comparison reversed
DepthTestReversed(z, stored) == Lt(stored, z)

\* DepthTest accepting equal depth
DepthTestLe(z, stored) == Lt(z, stored) \/ (~IsNaN(z) /\ z = stored)

\* DepthTest accepting every fragment
DepthTestOff(z, stored) == TRUE

\* The depth test of rasterizeTriangle
DepthTest(z, stored) == Lt(z, stored)

\* The coverage test of rasterizeTriangle
Covered(bary) == Ge(bary.u, I(0)) /\ Ge(bary.v, I(0)) /\ Ge(bary.w, I(0))

\* What the fragment stages give for one covered pixel: the value written to
\* the framebuffer, or a throw.  invoked tells whether the fragment shader ran.
ShadeV(t, varying) ==
    IF varying.threw
    THEN [threw |-> TRUE, invoked |-> FALSE, ret |-> NaN, val |-> NaN, vary |-> NoExtras]
    ELSE Val1(FragShader(t.fs, varying.val, t.uniforms),
              LAMBDA color :
                  [threw |-> color.threw, invoked |-> TRUE,
                   ret |-> IF color.threw THEN NaN ELSE color.val,
                   val |-> IF color.threw THEN NaN ELSE ClampColor(color.val),
                   vary |-> varying.val.vary])

Shade(t, bary) == Val1(InterpolateVarying(t.v0, t.v1, t.v2, bary), LAMBDA varying : ShadeV(t, varying))

\* The names of the first vertex output that the second or the third lacks
MissingNames(t) ==
    {k \in DOMAIN t.v0.vary :
        Get(t.v1.vary, k).kind = "undefined" \/ Get(t.v2.vary, k).kind = "undefined"}

\* The record kept of a fragment that covered a pixel: its depth z, whether
\* the depth test accepted it (accepted), whether interpolation returned
\* (interp), whether the fragment stages returned (ok), what the fragment
\* shader returned (ret), the value the stages give for the framebuffer (c),
\* the bundle handed to the fragment shader (vary), the names missing from
\* the triangle's second or third vertex output, and the triangle's screen
\* points (p) and vertex outputs (out).
FragmentRecord(t, z, shaded, accepted) ==
    [z |-> z, accepted |-> accepted, ok |-> ~shaded.threw, interp |-> shaded.invoked,
     ret |-> shaded.ret,
     c |-> IF shaded.threw THEN 0 ELSE ToInt(shaded.val),
     vary |-> shaded.vary, missing |-> MissingNames(t),
     p |-> <<t.p0, t.p1, t.p2>>, out |-> <<t.v0, t.v1, t.v2>>]

\* this.depthBuffer[idx]: a read outside the array gives undefined, which
\* compares as NaN does.
DepthAt(dep, idx) == IF idx \in DOMAIN dep THEN dep[idx] ELSE NaN

\* The steps of one render() in the order they happen: a vertex shader call
\* on vertices[index] ("vs"), pixel (x, y) of the loops of rasterizeTriangle
\* with the outcome of its coverage and depth tests and the depth z
\* interpolated for it ("px"), and a fragment shader call for pixel (x, y)
\* ("fs").
VsEvent(index) ==
    [kind |-> "vs", index |-> index, x |-> 0, y |-> 0, covered |-> FALSE, accepted |-> FALSE,
     z |-> NaN]

PxEvent(x, y, covered, accepted, z) ==
    [kind |-> "px", index |-> 0, x |-> x, y |-> y, covered |-> covered, accepted |-> accepted,
     z |-> z]

FsEvent(x, y) ==
    [kind |-> "fs", index |-> 0, x |-> x, y |-> y, covered |-> TRUE, accepted |-> TRUE,
     z |-> NaN]

\* Fragment without the write to the depth buffer
FragmentNoDepthWrite(st, t, x, y, z, shaded) ==
    LET idx == y * Width + x
        seen == [st EXCEPT !.frags[idx] =
                    Append(@, FragmentRecord(t, z, shaded, Lt(z, st.depth[idx])))]
    IN  IF ~Lt(z, st.depth[idx]) THEN seen
        ELSE IF shaded.threw
             THEN [seen EXCEPT !.threw = TRUE, !.calls = IF shaded.invoked THEN @ + 1 ELSE @]
        ELSE [seen EXCEPT !.calls = @ + 1, !.buffer = SetPixel(@, x, y, shaded.val)]

\* Fragment writing the framebuffer for a fragment the depth test rejects
FragmentDiscardWrites(st, t, x, y, z, shaded) ==
    LET idx == y * Width + x
        accepted == DepthTest(z, DepthAt(st.depth, idx))
        seen == [st EXCEPT !.frags[idx] = Append(@, FragmentRecord(t, z, shaded, accepted)),
                           !.events = Append(@, PxEvent(x, y, TRUE, accepted, z))]
    IN  IF shaded.threw
        THEN [seen EXCEPT !.depth[idx] = IF accepted THEN z ELSE @, !.threw = TRUE,
                          !.calls = IF shaded.invoked THEN @ + 1 ELSE @,
                          !.events = IF shaded.invoked THEN Append(@, FsEvent(x, y)) ELSE @]
        ELSE [seen EXCEPT !.depth[idx] = IF accepted THEN z ELSE @, !.calls = @ + 1,
                          !.events = Append(@, FsEvent(x, y)),
                          !.buffer = SetPixel(@, x, y, shaded.val)]

\* The fragment stages of rasterizeTriangle for a covered pixel (x, y) with
\* depth z, whose fragment stages give shaded.  st.frags records every
\* covering fragment, accepted or not.
Fragment(st, t, x, y, z, shaded) ==
    LET idx == y * Width + x
        accepted == DepthTest(z, DepthAt(st.depth, idx))
        seen == [st EXCEPT !.frags[idx] = Append(@, FragmentRecord(t, z, shaded, accepted)),
                           !.events = Append(@, PxEvent(x, y, TRUE, accepted, z))]
    IN  IF ~accepted THEN seen
        ELSE IF shaded.threw
             THEN [seen EXCEPT !.depth[idx] = z, !.threw = TRUE,
                               !.calls = IF shaded.invoked THEN @ + 1 ELSE @,
                               !.events = IF shaded.invoked THEN Append(@, FsEvent(x, y)) ELSE @]
        ELSE [seen EXCEPT !.depth[idx] = z, !.calls = @ + 1,
                          !.events = Append(@, FsEvent(x, y)),
                          !.buffer = SetPixel(@, x, y, shaded.val)]

\* The body of the pixel loops of rasterizeTriangle for pixel (x, y), on the
\* renderer state st
RasterizePixelV(st, x, y, t, bary) ==
    IF ~Covered(bary) THEN [st EXCEPT !.events = Append(@, PxEvent(x, y, FALSE, FALSE, NaN))]
    ELSE Val2(Blend(t.p0.z, t.p1.z, t.p2.z, bary), Shade(t, bary),
              LAMBDA z, shaded : Fragment(st, t, x, y, z, shaded))

RasterizePixel(st, x, y, t) ==
    Val1(Barycentric(x, y, t.p0, t.p1, t.p2), LAMBDA bary : RasterizePixelV(st, x, y, t, bary))

\* The pixels of the clamped bounding box in the order of the loops: rows from
\* minY to maxY, in each row columns from minX to maxX.
BoxPixelsV(minX, maxX, minY, maxY) ==
    IF \/ ~IsFinite(minX) \/ ~IsFinite(maxX) \/ ~IsFinite(minY) \/ ~IsFinite(maxY)
       \/ LtV(maxX, minX) \/ LtV(maxY, minY)
    THEN <<>>
    ELSE LET cols == maxX[1] - minX[1] + 1
             rows == maxY[1] - minY[1] + 1
         IN  [k \in 1 .. cols * rows |->
                 [x |-> minX[1] + ((k - 1) % cols), y |-> minY[1] + ((k - 1) \div cols)]]

\* BoxPixels with the box clamped to width and height
BoxPixelsWide(p0, p1, p2) ==
    Val2(<<MathMax(I(0), MathFloor(MathMin3(p0.x, p1.x, p2.x))),
           MathMin(I(Width), MathCeil(MathMax3(p0.x, p1.x, p2.x)))>>,
         <<MathMax(I(0), MathFloor(MathMin3(p0.y, p1.y, p2.y))),
           MathMin(I(Height), MathCeil(MathMax3(p0.y, p1.y, p2.y)))>>,
         LAMBDA xs, ys : BoxPixelsV(xs[1], xs[2], ys[1], ys[2]))

BoxPixels(p0, p1, p2) ==
    Val2(<<MathMax(I(0), MathFloor(MathMin3(p0.x, p1.x, p2.x))),
           MathMin(I(Width - 1), MathCeil(MathMax3(p0.x, p1.x, p2.x)))>>,
         <<MathMax(I(0), MathFloor(MathMin3(p0.y, p1.y, p2.y))),
           MathMin(I(Height - 1), MathCeil(MathMax3(p0.y, p1.y, p2.y)))>>,
         LAMBDA xs, ys : BoxPixelsV(xs[1], xs[2], ys[1], ys[2]))

RECURSIVE RasterLoop(_, _, _, _)
RasterLoop(st, pixels, k, t) ==
    IF k > Len(pixels) \/ st.threw THEN st
    ELSE Val1(RasterizePixel(st, pixels[k].x, pixels[k].y, t),
              LAMBDA next : RasterLoop(next, pixels, k + 1, t))

RasterizeTriangle(st, t) ==
    Val1(BoxPixels(t.p0, t.p1, t.p2), LAMBDA pixels : RasterLoop(st, pixels, 1, t))

\* geometry.indices[i]; a read past the end gives undefined, and
\* vertices[undefined] is undefined as vertices[-1] is.
IndexAt(geometry, i) ==
    IF i >= 0 /\ i < Len(geometry.indices) THEN geometry.indices[i + 1] ELSE -1

\* The triangle handed to rasterizeTriangle: screen points, vertex outputs,
\* fragment shader and uniforms
Triangle(d, v0, v1, v2) ==
    [p0 |-> ToScreen(PerspectiveDivide(v0.position)),
     p1 |-> ToScreen(PerspectiveDivide(v1.position)),
     p2 |-> ToScreen(PerspectiveDivide(v2.position)),
     v0 |-> v0, v1 |-> v1, v2 |-> v2,
     fs |-> d.fs, uniforms |-> d.uniforms]

\* vertShader(geometry.vertices[geometry.indices[j]], uniforms), with the
\* index read
ShadeVertex(d, j) ==
    Val2(IndexAt(d.geometry, j),
         VertShader(d.vs, VertexAt(d.geometry, IndexAt(d.geometry, j)), d.uniforms),
         LAMBDA index, out : [threw |-> out.threw, val |-> out.val, index |-> index])

\* ShadeVertices calling the vertex shader for i2, i1, i0
ShadeVerticesReversed(d, i) ==
    <<ShadeVertex(d, i + 2), ShadeVertex(d, i + 1), ShadeVertex(d, i)>>

\* The three vertex shader calls of render() for the triangle at indices[i]
ShadeVertices(d, i) ==
    <<ShadeVertex(d, i), ShadeVertex(d, i + 1), ShadeVertex(d, i + 2)>>

\* The body of the triangle loop of render() for the triangle at indices[i]
RenderTriangleV(st, d, v) ==
    IF v[1].threw \/ v[2].threw \/ v[3].threw THEN [st EXCEPT !.threw = TRUE]
    ELSE Val1(Triangle(d, v[1].val, v[2].val, v[3].val), LAMBDA t : RasterizeTriangle(st, t))

\* The vertex shader calls made for the triangle at indices[i], given what
\* they return: a call that throws is the last
VertexEvents(v) ==
    <<VsEvent(v[1].index)>>
    \o (IF v[1].threw THEN <<>>
        ELSE <<VsEvent(v[2].index)>>
             \o (IF v[2].threw THEN <<>> ELSE <<VsEvent(v[3].index)>>))

RenderTriangle(st, d, i) ==
    Val1(ShadeVertices(d, i),
         LAMBDA v : RenderTriangleV([st EXCEPT !.events = @ \o VertexEvents(v)], d, v))

RECURSIVE RenderLoop(_, _, _)
RenderLoop(st, d, i) ==
    IF i >= Len(d.geometry.indices) \/ st.threw THEN st
    ELSE Val1(RenderTriangle(st, d, i), LAMBDA next : RenderLoop(next, d, i + 3))

\* render(geometry, vertShader, fragShader, uniforms) for the draw call d on
\* the buffers buf and dep
RenderOp(buf, dep, fr, d) ==
    Val1([buffer |-> buf, depth |-> dep, frags |-> fr, calls |-> 0, threw |-> FALSE,
          events |-> <<>>],
         LAMBDA st : RenderLoop(st, d, 0))

----------------------------------------------------------------------------
(* The inputs drawn on *)

\* A geometry built by addVertex and addTriangle calls
RECURSIVE WithVertices(_, _)
WithVertices(geometry, vs) ==
    IF vs = <<>> THEN geometry
    ELSE WithVertices(AddVertexOp(geometry, Head(vs)).geometry, Tail(vs))

RECURSIVE WithTriangles(_, _)
WithTriangles(geometry, ts) ==
    IF ts = <<>> THEN geometry
    ELSE WithTriangles(AddTriangleOp(geometry, Head(ts)[1], Head(ts)[2], Head(ts)[3]), Tail(ts))

Build(vs, ts) == WithTriangles(WithVertices(EmptyGeometry, vs), ts)

\* The positions array of createCube, in units of s = 0.5
CubePositions ==
    << <<-1, -1, -1>>, <<1, -1, -1>>, <<1, 1, -1>>, <<-1, 1, -1>>,
       <<-1, -1, 1>>, <<1, -1, 1>>, <<1, 1, 1>>, <<-1, 1, 1>> >>

\* CubeFaces with the first triangle reaching across to the opposite face
CubeFacesCrossed ==
    << <<0, 1, 6>>, <<0, 2, 3>>,
       <<5, 4, 7>>, <<5, 7, 6>>,
       <<4, 0, 3>>, <<4, 3, 7>>,
       <<1, 5, 6>>, <<1, 6, 2>>,
       <<3, 2, 6>>, <<3, 6, 7>>,
       <<4, 5, 1>>, <<4, 1, 0>> >>

\* CubeFaces with the first triangle wound the other way
CubeFacesFlipped ==
    << <<0, 2, 1>>, <<0, 2, 3>>,
       <<5, 4, 7>>, <<5, 7, 6>>,
       <<4, 0, 3>>, <<4, 3, 7>>,
       <<1, 5, 6>>, <<1, 6, 2>>,
       <<3, 2, 6>>, <<3, 6, 7>>,
       <<4, 5, 1>>, <<4, 1, 0>> >>

\* The faces array of createCube
CubeFaces ==
    << <<0, 1, 2>>, <<0, 2, 3>>,
       <<5, 4, 7>>, <<5, 7, 6>>,
       <<4, 0, 3>>, <<4, 3, 7>>,
       <<1, 5, 6>>, <<1, 6, 2>>,
       <<3, 2, 6>>, <<3, 6, 7>>,
       <<4, 5, 1>>, <<4, 1, 0>> >>

\* The attributes createCube gives the vertex at pos: position and normal
CubeVertex(pos) ==
    Val1(Vec3(Rat(pos[1], 2), Rat(pos[2], 2), Rat(pos[3], 2)),
         LAMBDA position : Attrs(position, [normal |-> V3(Normalize(position))]))

\* Geometry.createCube()
CreateCube == Build([k \in 1 .. 8 |-> CubeVertex(CubePositions[k])], CubeFaces)

Pos(xn, xd, yn, yd, zn, zd) == Vec3(Rat(xn, xd), Rat(yn, yd), Rat(zn, zd))

Up == V3(Vec3(I(0), I(1), I(0)))
Down == V3(Vec3(I(0), I(-1), I(0)))

Full(pos, normal, shade) == Attrs(pos, [normal |-> normal, shade |-> Num(I(shade))])

\* One triangle at depth 0, every vertex with a normal and a shade
GeoFlat ==
    Build(<<Full(Pos(-1, 1, 1, 1, 0, 1), Up, 3),
            Full(Pos(1, 2, 1, 1, 0, 1), Up, 9),
            Full(Pos(-1, 1, -1, 3, 0, 1), Down, 15)>>,
          <<<<0, 1, 2>>>>)

\* The same screen triangle, its depth rising from -1/2 to 1/2
GeoSlant ==
    Build(<<Full(Pos(-1, 1, 1, 1, -1, 2), Up, 3),
            Full(Pos(1, 2, 1, 1, 1, 2), Up, 9),
            Full(Pos(-1, 1, -1, 3, 1, 2), Down, 15)>>,
          <<<<0, 1, 2>>>>)

\* Two triangles on the same three positions with different shades
GeoTwin ==
    Build(<<Full(Pos(-1, 1, 1, 1, 0, 1), Up, 3),
            Full(Pos(1, 2, 1, 1, 0, 1), Up, 9),
            Full(Pos(-1, 1, -1, 3, 0, 1), Down, 15),
            Full(Pos(-1, 1, 1, 1, 0, 1), Up, 12),
            Full(Pos(1, 2, 1, 1, 0, 1), Up, 12),
            Full(Pos(-1, 1, -1, 3, 0, 1), Down, 12)>>,
          <<<<0, 1, 2>>, <<3, 4, 5>>>>)

\* Three collinear vertices, and a triangle naming one vertex twice
GeoLine ==
    Build(<<Full(Pos(-1, 1, 1, 1, 0, 1), Up, 3),
            Full(Pos(-1, 4, 1, 1, 0, 1), Up, 9),
            Full(Pos(1, 2, 1, 1, 0, 1), Up, 15)>>,
          <<<<0, 1, 2>>, <<0, 2, 2>>>>)

\* The scalar shade on the first and third vertex only
GeoMixedScalar ==
    Build(<<Attrs(Pos(-1, 1, 1, 1, 0, 1), [shade |-> Num(I(3))]),
            Attrs(Pos(1, 2, 1, 1, 0, 1), NoExtras),
            Attrs(Pos(-1, 1, -1, 3, 0, 1), [shade |-> Num(I(15))])>>,
          <<<<0, 1, 2>>>>)

\* The Vec3 normal on the first and third vertex only
GeoMixedVec3 ==
    Build(<<Attrs(Pos(-1, 1, 1, 1, 0, 1), [normal |-> Up]),
            Attrs(Pos(1, 2, 1, 1, 0, 1), NoExtras),
            Attrs(Pos(-1, 1, -1, 3, 0, 1), [normal |-> Down])>>,
          <<<<0, 1, 2>>>>)

\* A triangle reaching past every edge of the framebuffer, at depth 1/4
GeoOutside ==
    Build(<<Full(Pos(-3, 2, 5, 3, 1, 4), Up, 3),
            Full(Pos(3, 2, 1, 1, 1, 4), Up, 9),
            Full(Pos(-1, 1, -5, 3, 1, 4), Down, 15)>>,
          <<<<0, 1, 2>>>>)

\* A triangle wholly to the right of the framebuffer
GeoBeyond ==
    Build(<<Full(Pos(2, 1, 1, 1, 0, 1), Up, 3),
            Full(Pos(3, 1, 0, 1, 0, 1), Up, 9),
            Full(Pos(2, 1, -1, 1, 0, 1), Down, 15)>>,
          <<<<0, 1, 2>>>>)

\* Uniforms: the model matrix moves by dz in depth, the projection matrix is the
\* identity with m[15] = w, and color is the custom uniform of the "flat" shader.
Uniforms(color, dz, w) ==
    [modelMatrix |-> Translate(I(0), I(0), dz),
     viewMatrix |-> Identity,
     projectionMatrix |-> [Identity EXCEPT ![16] = w],
     color |-> color]

Draw(geometry, vs, fs, uniforms) ==
    [geometry |-> geometry, vs |-> vs, fs |-> fs, uniforms |-> uniforms]

\* The draw calls render() is given
DrawCalls ==
    { Draw(GeoFlat, "mvp", "flat", Uniforms(Rat(7, 2), I(0), I(1))),
      Draw(GeoFlat, "mvp", "flat", Uniforms(I(20), I(0), I(1))),
      Draw(GeoFlat, "mvp", "flat", Uniforms(Rat(-1, 2), Rat(1, 4), I(1))),
      Draw(GeoFlat, "mvp", "normal", Uniforms(I(0), Rat(1, 8), I(1))),
      Draw(GeoFlat, "mvp", "flat", Uniforms(I(6), I(0), I(2))),
      Draw(GeoFlat, "mvp", "flat", Uniforms(I(7), I(0), I(0))),
      Draw(GeoSlant, "mvp", "flat", Uniforms(I(9), I(0), I(1))),
      Draw(GeoTwin, "mvp", "shade", Uniforms(I(0), I(0), I(1))),
      Draw(GeoLine, "mvp", "flat", Uniforms(I(20), I(-1), I(1))),
      Draw(GeoMixedScalar, "mvp", "shade", Uniforms(I(0), I(-1), I(1))),
      Draw(GeoMixedVec3, "mvp", "normal", Uniforms(I(0), I(-1), I(1))),
      Draw(GeoOutside, "mvp", "flat", Uniforms(I(5), I(0), I(1))),
      Draw(GeoBeyond, "mvp", "flat", Uniforms(I(5), I(0), I(1))) }

----------------------------------------------------------------------------
(* The renderer as a state machine *)

NoFrags == [i \in 0 .. NumPixels - 1 |-> <<>>]

NoCall == [fn |-> "none", arg |-> Vec4Default, res |-> Vec3Default]

Init ==
    /\ buffer = ClearBuffer
    /\ depthBuffer = ClearDepth
    /\ vertices = <<>>
    /\ indices = <<>>
    /\ lastOp = "new"
    /\ returned = -1
    /\ fault = FALSE
    /\ fragCalls = 0
    /\ hist = <<>>
    /\ frags = NoFrags
    /\ alt = [buffer |-> ClearBuffer, depth |-> ClearDepth, threw |-> FALSE]
    /\ dirtyCleared = FALSE
    /\ call = NoCall

\* Image.fill(c) of the host: every cell holds c
Fill(buf, c) == [i \in DOMAIN buf |-> c]

\* ResetDepth with the loop starting at cell 1
ResetDepthFromOne(dep) ==
    [i \in DOMAIN dep |-> IF i = 0 THEN dep[i] ELSE Infinity]

\* The loop of clear() over the depth buffer
ResetDepth(dep) == [i \in DOMAIN dep |-> Infinity]

\* clear()
Clear ==
    /\ buffer' = Fill(buffer, 0)
    /\ depthBuffer' = ResetDepth(depthBuffer)
    /\ lastOp' = "clear"
    /\ fault' = FALSE
    /\ fragCalls' = 0
    /\ hist' = <<>>
    /\ frags' = NoFrags
    /\ alt' = [buffer |-> ClearBuffer, depth |-> ClearDepth, threw |-> FALSE]
    /\ dirtyCleared' = (buffer # ClearBuffer \/ depthBuffer # ClearDepth)
    /\ UNCHANGED <<vertices, indices, returned, call>>

\* The buffers after the draw calls a then b on clear buffers
TwoDrawsV(first, b) ==
    Val1(RenderOp(first.buffer, first.depth, first.frags, b),
         LAMBDA second : [buffer |-> second.buffer, depth |-> second.depth,
                          threw |-> first.threw \/ second.threw])

TwoDraws(a, b) ==
    Val1(RenderOp(ClearBuffer, ClearDepth, NoFrags, a), LAMBDA first : TwoDrawsV(first, b))

\* render(d.geometry, d.vs, d.fs, d.uniforms)
RenderCall(d) ==
    /\ Len(hist) < MaxDraws
    /\ \E r \in {RenderOp(buffer, depthBuffer, frags, d)} :
        /\ buffer' = r.buffer
        /\ depthBuffer' = r.depth
        /\ lastOp' = "render"
        /\ fault' = r.threw
        /\ fragCalls' = r.calls
        /\ hist' = Append(hist, [draw |-> d, threw |-> r.threw, events |-> r.events])
        /\ frags' = r.frags
        /\ alt' = IF Len(hist) = 1 THEN TwoDraws(d, hist[1].draw)
                  ELSE [buffer |-> r.buffer, depth |-> r.depth, threw |-> r.threw]
        /\ dirtyCleared' = (dirtyCleared /\ hist = <<>>)
        /\ UNCHANGED <<vertices, indices, returned, call>>

Render == \E d \in DrawCalls : RenderCall(d)

Next == Clear \/ Render

Spec == Init /\ [][Next]_vars

----------------------------------------------------------------------------
(* Building a geometry and drawing it *)

\* The attribute records addVertex is given
VertexChoices ==
    { Full(Pos(-1, 1, 1, 1, 0, 1), Up, 3),
      Full(Pos(1, 2, 1, 1, 0, 1), Up, 9),
      Full(Pos(-1, 1, -1, 3, 0, 1), Down, 15) }

\* The index triples addTriangle is given: in range, below 0, past the end
IndexChoices == { <<0, 1, 2>>, <<2, 1, 0>>, <<0, 1, 3>>, <<-1, 0, 1>> }

\* geometry.addVertex(attrs)
AddVertex ==
    /\ Len(vertices) < MaxVerts
    /\ \E attrs \in VertexChoices :
         \E r \in {AddVertexOp([vertices |-> vertices, indices |-> indices], attrs)} :
            /\ vertices' = r.geometry.vertices
            /\ indices' = r.geometry.indices
            /\ returned' = r.result
    /\ lastOp' = "addVertex"
    /\ UNCHANGED <<buffer, depthBuffer, fault, fragCalls, hist, frags, alt, dirtyCleared, call>>

\* geometry.addTriangle(i0, i1, i2)
AddTriangle ==
    /\ Len(indices) < 3 * MaxTris
    /\ \E t \in IndexChoices :
         \E g \in {AddTriangleOp([vertices |-> vertices, indices |-> indices], t[1], t[2], t[3])} :
            /\ vertices' = g.vertices
            /\ indices' = g.indices
    /\ lastOp' = "addTriangle"
    /\ UNCHANGED <<buffer, depthBuffer, returned, fault, fragCalls, hist, frags, alt,
                   dirtyCleared, call>>

\* renderer.render(geometry, vs, flat, uniforms) of the geometry built so far,
\* drawn once
RenderGeometry ==
    /\ hist = <<>>
    /\ \E vs \in VertexShaders :
         RenderCall(Draw([vertices |-> vertices, indices |-> indices], vs, "flat",
                         Uniforms(I(5), I(0), I(1))))

NextGeo == AddVertex \/ AddTriangle \/ RenderGeometry

SpecGeo == Init /\ [][NextGeo]_vars

----------------------------------------------------------------------------
(* The cube fixture, created and drawn *)

\* The uniforms of the cube scene: the model matrix moves by dz in depth, the
\* camera looks from (0, 0, 3) at the origin with up (0, 1, 0), the projection
\* is perspective(pi/3, 1, 0.1, 100), and color is what the "flat" shader returns.
CubeUniforms(dz, color) ==
    [modelMatrix |-> Translate(I(0), I(0), dz),
     viewMatrix |-> LookAt(Vec3(I(0), I(0), I(3)), Vec3Default, Vec3(I(0), I(1), I(0))),
     projectionMatrix |-> Perspective(Rat(1, 3), I(1), Rat(1, 10), I(100)),
     color |-> color]

CubeUniformChoices ==
    { CubeUniforms(I(0), I(15)), CubeUniforms(I(0), I(7)),
      CubeUniforms(I(1), I(15)), CubeUniforms(I(-1), I(9)),
      CubeUniforms(I(-2), I(15)) }

\* geo = Geometry.createCube()
CreateCubeCall ==
    /\ vertices' = CreateCube.vertices
    /\ indices' = CreateCube.indices
    /\ lastOp' = "createCube"
    /\ UNCHANGED <<buffer, depthBuffer, returned, fault, fragCalls, hist, frags, alt,
                   dirtyCleared, call>>

\* renderer.render(geo, mvp, flat, uniforms)
RenderCube ==
    \E u \in CubeUniformChoices :
        RenderCall(Draw([vertices |-> vertices, indices |-> indices], "mvp", "flat", u))

NextCube == CreateCubeCall \/ Clear \/ RenderCube

SpecCube == Init /\ [][NextCube]_vars

----------------------------------------------------------------------------
(* Calls of perspectiveDivide *)

Coordinates == {Rat(-3, 2), I(0), I(2)}

Ws == {I(0), Rat(1, 20000), Rat(-1, 20000), Rat(1, 10000), Rat(-1, 10000),
       Rat(1, 2), I(1), I(-1), I(-2), I(3)}

\* renderer.perspectiveDivide(v)
DivideCall ==
    /\ \E x \in Coordinates, y \in Coordinates, z \in Coordinates, w \in Ws :
         \E v \in {Vec4(x, y, z, w)} :
            call' = [fn |-> "perspectiveDivide", arg |-> v, res |-> PerspectiveDivide(v)]
    /\ UNCHANGED <<buffer, depthBuffer, vertices, indices, lastOp, returned, fault,
                   fragCalls, hist, frags, alt, dirtyCleared>>

NextMath == DivideCall

SpecMath == Init /\ [][NextMath]_vars

----------------------------------------------------------------------------
(* The array-based API (src/unnamed/part_000): Geo *)

\* v3norm
V3Norm(v) ==
    Val1(MathSqrt(Add(Add(Mul(v[1], v[1]), Mul(v[2], v[2])), Mul(v[3], v[3]))),
         LAMBDA len : IF Gt(len, I(0))
                      THEN <<Div(v[1], len), Div(v[2], len), Div(v[3], len)>>
                      ELSE <<I(0), I(0), I(0)>>)

\* A field of an object: undefined until it is assigned an array
NoArray == [defined |-> FALSE, items |-> <<>>]

\* new Geo(): the class declares v and i without an initialiser and has no
\* constructor, so both fields are undefined.
NewGeo == [v |-> NoArray, i |-> NoArray]

\* g.addVert(pos, norm): this.v.push throws a TypeError on an undefined v.
GeoAddVert(g, pos, norm) ==
    IF ~g.v.defined THEN Threw
    ELSE LET items == Append(g.v.items, [p |-> pos, n |-> norm])
         IN  Ok([geo |-> [g EXCEPT !.v.items = items], result |-> Len(items) - 1])

\* g.addTri(i0, i1, i2): this.i.push throws a TypeError on an undefined i.
GeoAddTri(g, i0, i1, i2) ==
    IF ~g.i.defined THEN Threw
    ELSE Ok([geo |-> [g EXCEPT !.i.items = @ \o <<i0, i1, i2>>], result |-> 0])

\* The loop of Geo.cube over pos: addVert(p, v3norm(p)) from pos[k] on
RECURSIVE GeoCubeVerts(_, _)
GeoCubeVerts(g, k) ==
    IF k > Len(CubePositions) THEN Ok(g)
    ELSE Val1(<<Rat(CubePositions[k][1], 2), Rat(CubePositions[k][2], 2),
                Rat(CubePositions[k][3], 2)>>,
              LAMBDA p :
                 Val1(GeoAddVert(g, p, V3Norm(p)),
                      LAMBDA r : IF r.threw THEN Threw ELSE GeoCubeVerts(r.val.geo, k + 1)))

\* The loop of Geo.cube over faces: addTri(f[0], f[1], f[2]) from faces[k] on
RECURSIVE GeoCubeTris(_, _)
GeoCubeTris(g, k) ==
    IF k > Len(CubeFaces) THEN Ok(g)
    ELSE Val1(GeoAddTri(g, CubeFaces[k][1], CubeFaces[k][2], CubeFaces[k][3]),
              LAMBDA r : IF r.threw THEN Threw ELSE GeoCubeTris(r.val.geo, k + 1))

\* Geo.cube()
GeoCube ==
    Val1(GeoCubeVerts(NewGeo, 1),
         LAMBDA r : IF r.threw THEN Threw ELSE GeoCubeTris(r.val, 1))

----------------------------------------------------------------------------
(* Single calls of the other functions, each on a fresh program *)

\* The integer screen points and pixels barycentric is called on
ScreenPoints == {[x |-> I(a), y |-> I(b)] : a \in 0 .. 2, b \in 0 .. 2}
PixelXs == 0 .. 3
PixelYs == 0 .. 2

\* renderer.barycentric(x, y, p0, p1, p2)
BarycentricCall ==
    /\ call = NoCall
    /\ \E p0 \in ScreenPoints, p1 \in ScreenPoints, p2 \in ScreenPoints,
          x \in PixelXs, y \in PixelYs :
            call' = [fn |-> "barycentric",
                     arg |-> [x |-> x, y |-> y, p0 |-> p0, p1 |-> p1, p2 |-> p2],
                     res |-> Barycentric(x, y, p0, p1, p2)]
    /\ UNCHANGED <<buffer, depthBuffer, vertices, indices, lastOp, returned, fault,
                   fragCalls, hist, frags, alt, dirtyCleared>>

\* The positions and normals addVert is given
ArrayVectors == {<<I(0), I(1), I(0)>>, <<Rat(-1, 2), I(0), Rat(-1, 2)>>, <<I(0), I(0), I(0)>>}

\* const geo = new Geo(); geo.addVert(pos, norm)
GeoAddVertCall ==
    /\ call = NoCall
    /\ \E pos \in ArrayVectors, norm \in ArrayVectors :
            call' = [fn |-> "Geo.addVert", arg |-> <<pos, norm>>,
                     res |-> GeoAddVert(NewGeo, pos, norm)]
    /\ UNCHANGED <<buffer, depthBuffer, vertices, indices, lastOp, returned, fault,
                   fragCalls, hist, frags, alt, dirtyCleared>>

\* const geo = new Geo(); geo.addTri(i0, i1, i2)
GeoAddTriCall ==
    /\ call = NoCall
    /\ \E t \in IndexChoices :
            call' = [fn |-> "Geo.addTri", arg |-> t,
                     res |-> GeoAddTri(NewGeo, t[1], t[2], t[3])]
    /\ UNCHANGED <<buffer, depthBuffer, vertices, indices, lastOp, returned, fault,
                   fragCalls, hist, frags, alt, dirtyCleared>>

\* Geo.cube()
GeoCubeCall ==
    /\ call = NoCall
    /\ call' = [fn |-> "Geo.cube", arg |-> <<>>, res |-> GeoCube]
    /\ UNCHANGED <<buffer, depthBuffer, vertices, indices, lastOp, returned, fault,
                   fragCalls, hist, frags, alt, dirtyCleared>>

\* The rows the matrices given to multiply are made of
MatrixRows == {<<I(1), I(2), I(0), I(-1)>>, <<I(0), I(3), I(-2), I(5)>>}

\* The matrices multiply is given: identity() and every matrix of four rows
MatrixChoices ==
    {Identity} \cup {r0 \o r1 \o r2 \o r3 :
                        r0 \in MatrixRows, r1 \in MatrixRows, r2 \in MatrixRows, r3 \in MatrixRows}

\* Mat4.multiply(a, b)
MultiplyCall ==
    /\ call = NoCall
    /\ \E a \in MatrixChoices, b \in MatrixChoices :
            call' = [fn |-> "multiply", arg |-> <<a, b>>, res |-> Multiply(a, b)]
    /\ UNCHANGED <<buffer, depthBuffer, vertices, indices, lastOp, returned, fault,
                   fragCalls, hist, frags, alt, dirtyCleared>>

\* The arguments perspective is given: fov in units of pi, aspect, and the
\* pairs <<near, far>> with 0 < near < far
Fovs == {Rat(1, 4), Rat(1, 3), Rat(1, 2)}
Aspects == {I(1), Rat(4, 3)}
NearFars == {<<Rat(1, 10), I(100)>>, <<I(1), I(10)>>, <<Rat(1, 2), I(2)>>, <<Rat(1, 100), I(1)>>}

\* Mat4.perspective(fov, aspect, near, far)
PerspectiveCall ==
    /\ call = NoCall
    /\ \E fov \in Fovs, aspect \in Aspects, nf \in NearFars :
            call' = [fn |-> "perspective",
                     arg |-> [fov |-> fov, aspect |-> aspect, near |-> nf[1], far |-> nf[2]],
                     res |-> Perspective(fov, aspect, nf[1], nf[2])]
    /\ UNCHANGED <<buffer, depthBuffer, vertices, indices, lastOp, returned, fault,
                   fragCalls, hist, frags, alt, dirtyCleared>>

\* The arguments lookAt is given: eyes at a rational distance from the origin,
\* targets at the origin and half-way to it
Eyes == {Vec3(I(0), I(0), I(3)), Vec3(I(0), I(2), I(0)), Vec3(I(3), I(0), I(4)),
         Vec3(I(0), I(-5), I(0))}
Targets(eye) ==
    {Vec3Default, Vec3(Div(eye.x, I(2)), Div(eye.y, I(2)), Div(eye.z, I(2)))}
Ups == {Vec3(I(0), I(1), I(0)), Vec3(I(0), I(0), I(1)), Vec3(I(0), I(-2), I(0))}

\* Mat4.lookAt(eye, target, up)
LookAtCall ==
    /\ call = NoCall
    /\ \E eye \in Eyes, up \in Ups :
          \E target \in Targets(eye) :
            call' = [fn |-> "lookAt",
                     arg |-> [eye |-> eye, target |-> target, up |-> up],
                     res |-> LookAt(eye, target, up)]
    /\ UNCHANGED <<buffer, depthBuffer, vertices, indices, lastOp, returned, fault,
                   fragCalls, hist, frags, alt, dirtyCleared>>

\* The NDC coordinates toScreen is given, the ends -1 and 1 among them
NdcCoordinates ==
    {I(-1), Rat(-99, 100), Rat(-1, 2), I(0), Rat(1, 3), Rat(1, 2), Rat(99, 100), I(1)}

\* renderer.toScreen(ndc)
ToScreenCall ==
    /\ call = NoCall
    /\ \E x \in NdcCoordinates, y \in NdcCoordinates, z \in {I(0), Rat(1, 2)} :
          \E ndc \in {Vec3(x, y, z)} :
            call' = [fn |-> "toScreen", arg |-> ndc, res |-> ToScreen(ndc)]
    /\ UNCHANGED <<buffer, depthBuffer, vertices, indices, lastOp, returned, fault,
                   fragCalls, hist, frags, alt, dirtyCleared>>

\* toScreen(v) of the array-based Renderer on a renderer of Width x Height
\* pixels: v is [x, y, z, w], the result [column, row, depth]
ArrayToScreenV(v) ==
    IF Lt(MathAbs(v[4]), Rat(1, 10000)) THEN <<I(0), I(0), I(0)>>
    ELSE LET x == Div(v[1], v[4])
             y == Div(v[2], v[4])
             z == Div(v[3], v[4])
         IN  <<MathFloor(Mul(Mul(Add(x, I(1)), Rat(1, 2)), I(Width))),
               MathFloor(Mul(Mul(Sub(I(1), y), Rat(1, 2)), I(Height))),
               z>>

ArrayToScreen(v) == Val1(v, ArrayToScreenV)

\* The clip-space positions toScreen is given
ClipPositions ==
    {<<x, y, z, w>> : x \in {I(-1), Rat(1, 2)}, y \in {I(1), Rat(-1, 3)}, z \in {I(0), Rat(1, 4)},
                      w \in Ws}

ArrayToScreenCall ==
    /\ call = NoCall
    /\ \E v \in ClipPositions :
          call' = [fn |-> "Renderer.toScreen", arg |-> v, res |-> ArrayToScreen(v)]
    /\ UNCHANGED <<buffer, depthBuffer, vertices, indices, lastOp, returned, fault,
                   fragCalls, hist, frags, alt, dirtyCleared>>

NextCalls ==
    \/ ArrayToScreenCall
    \/ ToScreenCall
    \/ LookAtCall
    \/ BarycentricCall
    \/ GeoAddVertCall
    \/ GeoAddTriCall
    \/ GeoCubeCall
    \/ MultiplyCall
    \/ PerspectiveCall

SpecCalls == Init /\ [][NextCalls]_vars

----------------------------------------------------------------------------
(* Claims *)

Pixels == 0 .. NumPixels - 1

\* Whether draw call k since the last clear() has exactly one triangle
OneTriangle(k) == Len(hist[k].draw.geometry.indices) = 3

\* C1: right after clear(), whatever was drawn before, every framebuffer cell
\* is 0 and every depth cell is +Infinity.
C1_ClearResets ==
    lastOp = "clear" =>
        \A i \in Pixels : buffer[i] = 0 /\ depthBuffer[i] = Infinity

\* A clear() that found drawn cells
C1_Witness == lastOp = "clear" /\ dirtyCleared

\* C2: every framebuffer cell holds an integer in 0 .. 15, whatever the
\* fragment shaders returned (below 0, fractional, above 15).
C2_FramebufferRange == \A i \in Pixels : buffer[i] \in 0 .. 15

\* A frame on which a shader returning 20 and one returning 7/2 have written
C2_Witness ==
    /\ \E k \in 1 .. Len(hist) :
          hist[k].draw.fs = "flat" /\ hist[k].draw.uniforms.color = I(20)
    /\ \E k \in 1 .. Len(hist) :
          hist[k].draw.fs = "flat" /\ hist[k].draw.uniforms.color = Rat(7, 2)
    /\ \E i \in Pixels : buffer[i] = 15

\* Fragment k of pixel i is strictly nearer than every other fragment of i
Nearest(i, k) ==
    \A j \in 1 .. Len(frags[i]) : j # k => LtV(frags[i][k].z, frags[i][j].z)

\* C3: at every pixel, a fragment strictly nearer than every other fragment
\* that covered the pixel since clear() owns it, wherever it came in the
\* drawing order: the framebuffer holds its intensity and the depth buffer
\* its depth.
C3_DepthArbitration ==
    \A i \in Pixels : \A k \in 1 .. Len(frags[i]) :
        (Nearest(i, k) /\ frags[i][k].ok) =>
            (buffer[i] = frags[i][k].c /\ depthBuffer[i] = frags[i][k].z)

\* One pixel where the nearer of two fragments of different intensity was
\* drawn second, and one where it was drawn first
C3_Witness ==
    /\ \E i \in Pixels :
          /\ Len(frags[i]) = 2 /\ frags[i][1].ok /\ frags[i][2].ok
          /\ LtV(frags[i][2].z, frags[i][1].z)
          /\ frags[i][1].c # frags[i][2].c
    /\ \E i \in Pixels :
          /\ Len(frags[i]) = 2 /\ frags[i][1].ok /\ frags[i][2].ok
          /\ LtV(frags[i][1].z, frags[i][2].z)
          /\ frags[i][1].c # frags[i][2].c

\* Two draw calls of one triangle each since clear(), neither throwing in
\* either order
TwoTriangles ==
    /\ Len(hist) = 2
    /\ OneTriangle(1) /\ OneTriangle(2)
    /\ ~hist[1].threw /\ ~hist[2].threw /\ ~alt.threw

\* Pixel i is covered by the two triangles at the same depth
Tie(i) == Len(frags[i]) = 2 /\ frags[i][1].z = frags[i][2].z

\* C4 as stated: two triangles drawn on clear buffers give the same
\* framebuffer and depth buffer in either order, equal depths included.
C4_Commutative ==
    TwoTriangles => (buffer = alt.buffer /\ depthBuffer = alt.depth)

\* C4 amended: the depth buffer is the same in either order, and so is the
\* framebuffer at every pixel the two triangles do not cover at equal depth;
\* at a pixel of equal depth the triangle drawn first keeps the pixel.
C4_CommutativeOffTies ==
    TwoTriangles =>
        /\ depthBuffer = alt.depth
        /\ \A i \in Pixels :
              IF Tie(i)
              THEN buffer[i] = frags[i][1].c /\ alt.buffer[i] = frags[i][2].c
              ELSE buffer[i] = alt.buffer[i]

\* Two triangles that share pixels at different depths and a pixel at equal
\* depth with different intensities
C4_Witness ==
    /\ TwoTriangles
    /\ \E i \in Pixels : Tie(i) /\ frags[i][1].c # frags[i][2].c
    /\ \E i \in Pixels :
          Len(frags[i]) = 2 /\ LtV(frags[i][2].z, frags[i][1].z) /\ buffer[i] = frags[i][2].c

\* The step is the second of two render() calls of the same draw call on
\* buffers that were clear before the first, and neither call throws
SecondPass ==
    /\ lastOp' = "render"
    /\ Len(hist) = 1 /\ Len(hist') = 2
    /\ hist'[2].draw = hist[1].draw
    /\ ~hist[1].threw /\ ~hist'[2].threw

\* C5: rendering the same geometry a second time changes neither the
\* framebuffer nor the depth buffer and invokes the fragment shader zero
\* times.
C5_Idempotent ==
    [][SecondPass => (buffer' = buffer /\ depthBuffer' = depthBuffer /\ fragCalls' = 0)]_vars

\* A second pass of a draw call whose first pass wrote pixels
C5_Witness ==
    /\ Len(hist) = 2 /\ hist[1].draw = hist[2].draw
    /\ ~hist[1].threw /\ ~hist[2].threw
    /\ fragCalls = 0
    /\ \E i \in Pixels : buffer[i] # 0

\* The least depth among the fragments fs, +Infinity when there is none
RECURSIVE MinDepth(_)
MinDepth(fs) ==
    IF fs = <<>> THEN Infinity
    ELSE LET rest == MinDepth(Tail(fs))
         IN  IF LtV(Head(fs).z, rest) THEN Head(fs).z ELSE rest

\* No depth cell rises in a step other than clear()
DepthNeverRises ==
    lastOp' # "clear" => \A i \in Pixels : ~LtV(depthBuffer[i], depthBuffer'[i])

\* Every depth cell is the least depth of the fragments that covered it
DepthIsMinimum == \A i \in Pixels : depthBuffer[i] = MinDepth(frags[i])

\* C6: between two clear() calls no depth cell rises, and every cell holds
\* the least interpolated depth of the fragments that covered its pixel since
\* the last clear(), +Infinity when none did.
C6_DepthMinimum == []DepthIsMinimum /\ [][DepthNeverRises]_vars

\* A pixel whose second fragment was farther than the first and was rejected,
\* and a pixel no fragment covered
C6_Witness ==
    /\ \E i \in Pixels :
          Len(frags[i]) = 2 /\ LtV(frags[i][1].z, frags[i][2].z)
          /\ depthBuffer[i] = frags[i][1].z
    /\ \E i \in Pixels : frags[i] = <<>> /\ depthBuffer[i] = Infinity

\* Whether some index of the geometry lies outside 0 .. vertexCount - 1
BadIndex(g) ==
    \E k \in 1 .. Len(g.indices) : g.indices[k] < 0 \/ g.indices[k] >= Len(g.vertices)

\* C7 as stated, its half on render(): a render() of a geometry that holds an
\* index outside 0 .. vertexCount - 1 throws, whatever the vertex shader.
C7_BadIndexAlwaysFaults ==
    \A k \in 1 .. Len(hist) : BadIndex(hist[k].draw.geometry) => hist[k].threw

\* A render() of a geometry with an index out of range throws exactly when the
\* vertex shader reads its attributes
BadIndexFaultsOnRead ==
    \A k \in 1 .. Len(hist) :
        BadIndex(hist[k].draw.geometry) => (hist[k].threw <=> hist[k].draw.vs = "mvp")

\* An addTriangle step appends its three indices, in range or not, and leaves
\* the vertex buffer alone
AddTriangleAppends ==
    lastOp' = "addTriangle" =>
        /\ vertices' = vertices
        /\ \E t \in IndexChoices : indices' = indices \o t

\* C7 amended: addTriangle appends any three indices without validation or
\* error; a later render() of a geometry with an index outside
\* 0 .. vertexCount - 1 hands undefined to the vertex shader, and throws when
\* the vertex shader reads its attributes (a shader that never reads them
\* returns, and render() completes).
C7_BadIndexFaultsOnRead == []BadIndexFaultsOnRead /\ [][AddTriangleAppends]_vars

\* A geometry whose triangle names an index past the end of the vertex buffer,
\* rendered with the attribute-reading shader: the call threw
C7_Witness ==
    /\ Len(hist) = 1
    /\ hist[1].draw.vs = "mvp"
    /\ Len(hist[1].draw.geometry.vertices) = 3
    /\ hist[1].draw.geometry.indices = <<0, 1, 3>>
    /\ hist[1].threw

\* C8 as stated: a fragment of a triangle whose second or third vertex output
\* lacks a name of the first is interpolated without a throw, and the bundle
\* handed to the fragment shader does not hold the name.
C8_MissingNameSkipped ==
    \A i \in Pixels : \A k \in 1 .. Len(frags[i]) :
        frags[i][k].missing # {} =>
            /\ frags[i][k].interp
            /\ frags[i][k].missing \cap DOMAIN frags[i][k].vary = {}

\* |w| < 0.0001, on the numerator and denominator of w
Tiny(w) == AbsInt(w[1]) * 10000 < w[2]

\* C9: perspectiveDivide returns (x, y, z) unchanged when |w| < 0.0001, w = 0
\* included, and (x/w, y/w, z/w) for every other w, negative w included.
C9_PerspectiveGuard ==
    call.fn = "perspectiveDivide" =>
        IF Tiny(call.arg.w)
        THEN call.res = Vec3(call.arg.x, call.arg.y, call.arg.z)
        ELSE /\ IsFinite(call.res.x) /\ IsFinite(call.res.y) /\ IsFinite(call.res.z)
             /\ MulV(call.res.x, call.arg.w) = call.arg.x
             /\ MulV(call.res.y, call.arg.w) = call.arg.y
             /\ MulV(call.res.z, call.arg.w) = call.arg.z

\* A call with a nonzero w below the threshold that left a nonzero x alone
C9_Witness ==
    /\ call.fn = "perspectiveDivide"
    /\ call.arg.w = Rat(-1, 20000)
    /\ call.arg.x = I(2)
    /\ call.res.x = I(2)

\* Twice the signed area of the screen triangle t, on integer screen points
DoubleArea(t) ==
    (t.p1.x[1] - t.p0.x[1]) * (t.p2.y[1] - t.p0.y[1])
        - (t.p2.x[1] - t.p0.x[1]) * (t.p1.y[1] - t.p0.y[1])

\* Whether the triangle of d at indices[i] has collinear or coincident screen points
DegenerateAt(d, i) ==
    \E v \in {ShadeVertices(d, i)} :
        /\ ~v[1].threw /\ ~v[2].threw /\ ~v[3].threw
        /\ DoubleArea(Triangle(d, v[1].val, v[2].val, v[3].val)) = 0

\* Whether the draw call has triangles, all of them degenerate
Degenerate(d) ==
    /\ Len(d.geometry.indices) > 0
    /\ \A n \in 0 .. (Len(d.geometry.indices) \div 3) - 1 : DegenerateAt(d, 3 * n)

\* C10: a render() of triangles whose screen points are collinear or
\* coincident covers no pixel: framebuffer and depth buffer stay as they were,
\* the fragment shader is not invoked, and the call does not throw.
C10_DegenerateSkipped ==
    [][(lastOp' = "render" /\ Len(hist') = Len(hist) + 1
          /\ Degenerate(hist'[Len(hist')].draw))
        => (/\ buffer' = buffer /\ depthBuffer' = depthBuffer /\ frags' = frags
            /\ fragCalls' = 0 /\ ~fault')]_vars

\* Degenerate triangles, nearer than everything drawn, rendered over a frame
\* that holds drawn pixels in the row of their bounding box
C10_Witness ==
    /\ Len(hist) = 2
    /\ Degenerate(hist[2].draw)
    /\ ~Degenerate(hist[1].draw)
    /\ ~fault /\ fragCalls = 0
    /\ \E i \in 0 .. Width - 1 : buffer[i] # 0

\* The intensity the contract gives for a shader return r: 0 below 0, 15 above
\* 15, the integer part in between
ClampThenTruncate(r) ==
    IF LtV(r, I(0)) THEN 0
    ELSE IF LtV(I(15), r) THEN 15
    ELSE r[1] \div r[2]

\* Fragment k of pixel i passed the depth test and its shader returned a number
Written(i, k) ==
    frags[i][k].accepted /\ frags[i][k].ok /\ ~IsNaN(frags[i][k].ret)

\* C11: every fragment the depth test accepted wrote its shader's return
\* clamped to 0 .. 15 and truncated (0 for a return below 0, those in (-1, 0)
\* included, 15 for a return above 15, the integer part otherwise), and the
\* framebuffer holds what the last accepted fragment of the pixel wrote.
C11_ClampTruncate ==
    \A i \in Pixels : \A k \in 1 .. Len(frags[i]) :
        Written(i, k) =>
            /\ frags[i][k].c = ClampThenTruncate(frags[i][k].ret)
            /\ (\A j \in k + 1 .. Len(frags[i]) : ~frags[i][j].accepted)
                  => buffer[i] = ClampThenTruncate(frags[i][k].ret)

\* A pixel written with 0 for a return of -1/2 and then with 3 for 7/2
C11_Witness ==
    \E i \in Pixels :
        /\ Len(frags[i]) = 2 /\ Written(i, 1) /\ Written(i, 2)
        /\ frags[i][1].ret = Rat(-1, 2) /\ frags[i][1].c = 0
        /\ frags[i][2].ret = Rat(7, 2) /\ buffer[i] = 3

\* The pixel index of the centre of the framebuffer
CentrePixel == (Height \div 2) * Width + (Width \div 2)

\* The pixel indices of the four corners of the framebuffer
CornerPixels ==
    {0, Width - 1, (Height - 1) * Width, (Height - 1) * Width + Width - 1}

\* One render() of the cube fixture since clear(), with the identity model
\* matrix and the fragment shader returning 15
CubeScene ==
    /\ Len(hist) = 1
    /\ hist[1].draw.geometry = CreateCube
    /\ hist[1].draw.vs = "mvp" /\ hist[1].draw.fs = "flat"
    /\ hist[1].draw.uniforms = CubeUniforms(I(0), I(15))

\* C12: the cube fixture under the identity model matrix,
\* lookAt((0,0,3), (0,0,0), (0,1,0)) and perspective(pi/3, 1, 0.1, 100), drawn
\* once on clear buffers with a fragment shader returning 15, leaves 15 at the
\* centre pixel and 0 at the four corner pixels, and render() returns.
C12_CubeScene ==
    CubeScene =>
        /\ ~fault
        /\ buffer[CentrePixel] = 15
        /\ \A i \in CornerPixels : buffer[i] = 0

\* The cube scene drawn: the fragment shader ran and the centre pixel holds 15
C12_Witness == CubeScene /\ lastOp = "render" /\ buffer[CentrePixel] = 15 /\ fragCalls > 0

\* Twice the signed area of the integer points a, b, c
Orient(a, b, c) ==
    (b.x[1] - a.x[1]) * (c.y[1] - a.y[1]) - (c.x[1] - a.x[1]) * (b.y[1] - a.y[1])

\* Whether the pixel q lies inside the triangle p0 p1 p2 or on its boundary:
\* it is on the same side of the three edges, or on one of them
InsideOrOn(q, p0, p1, p2) ==
    LET o1 == Orient(p0, p1, q)
        o2 == Orient(p1, p2, q)
        o3 == Orient(p2, p0, q)
    IN  \/ o1 >= 0 /\ o2 >= 0 /\ o3 >= 0
        \/ o1 <= 0 /\ o2 <= 0 /\ o3 <= 0

\* C13: for three non-collinear integer screen points and a pixel, the weights
\* of barycentric add up to 1; all three are >= 0 when the pixel is inside the
\* triangle or on its boundary, and at least one is < 0 when it is outside,
\* for either winding of the points.
C13_BarycentricWeights ==
    (call.fn = "barycentric" /\ Orient(call.arg.p0, call.arg.p1, call.arg.p2) # 0) =>
        LET b == call.res
            q == [x |-> I(call.arg.x), y |-> I(call.arg.y)]
        IN  /\ AddV(AddV(b.u, b.v), b.w) = I(1)
            /\ IF InsideOrOn(q, call.arg.p0, call.arg.p1, call.arg.p2)
               THEN GeV(b.u, I(0)) /\ GeV(b.v, I(0)) /\ GeV(b.w, I(0))
               ELSE LtV(b.u, I(0)) \/ LtV(b.v, I(0)) \/ LtV(b.w, I(0))

\* A pixel strictly inside a clockwise triangle (negative denom), with three
\* positive weights
C13_Witness ==
    /\ call.fn = "barycentric"
    /\ Orient(call.arg.p0, call.arg.p1, call.arg.p2) < 0
    /\ LtV(I(0), call.res.u) /\ LtV(I(0), call.res.v) /\ LtV(I(0), call.res.w)

\* The corners (+-0.5, +-0.5, +-0.5)
Corners ==
    {Vec3(Rat(a, 2), Rat(b, 2), Rat(c, 2)) : a \in {-1, 1}, b \in {-1, 1}, c \in {-1, 1}}

\* The six faces of the cube: an axis and the value of that coordinate
CubeSides == {<<axis, Rat(sgn, 2)>> : axis \in {"x", "y", "z"}, sgn \in {-1, 1}}

\* The positions of the three vertices of triangle n (from 0) of the geometry
TrianglePositions(n) ==
    [k \in 1 .. 3 |-> vertices[indices[3 * n + k] + 1].position]

\* Whether the three vertices of triangle n lie on the face side
OnSide(n, side) ==
    \A k \in 1 .. 3 : TrianglePositions(n)[k][side[1]] = side[2]

\* C14: createCube() gives 8 vertices, one at each corner (+-0.5, +-0.5, +-0.5),
\* and 36 indices, each in 0 .. 7; each of the 6 faces holds exactly 2 of the
\* 12 triangles, with all three vertices on the face.
C14_CubeFixture ==
    lastOp = "createCube" =>
        /\ Len(vertices) = 8
        /\ {vertices[k].position : k \in 1 .. 8} = Corners
        /\ Len(indices) = 36
        /\ \A k \in 1 .. 36 : indices[k] \in 0 .. 7
        /\ \A side \in CubeSides : Cardinality({n \in 0 .. 11 : OnSide(n, side)}) = 2

\* The cube just created, after a frame was drawn
C14_Witness == lastOp = "createCube" /\ Len(hist) > 0 /\ Len(indices) = 36

\* The outward normal of the face side
SideNormal(side) ==
    LET s == I(SignInt(side[2][1]))
    IN  Vec3(IF side[1] = "x" THEN s ELSE I(0),
             IF side[1] = "y" THEN s ELSE I(0),
             IF side[1] = "z" THEN s ELSE I(0))

\* dot(cross(p1 - p0, p2 - p0), n) for triangle n (from 0) on the face side
Winding(n, side) ==
    LET p == TrianglePositions(n)
    IN  Vec3Dot(Vec3Cross(Vec3Sub(p[2], p[1]), Vec3Sub(p[3], p[1])), SideNormal(side))

\* The signs of the windings of the triangles of the geometry against the
\* outward normals of their faces
WindingSigns ==
    UNION {{SignInt(Winding(n, side)[1]) : side \in {sd \in CubeSides : OnSide(n, sd)}} :
              n \in 0 .. (Len(indices) \div 3) - 1}

\* C15: the 12 triangles of createCube() are wound the same way: the sign of
\* dot(cross(p1 - p0, p2 - p0), outward normal of the face) is the same,
\* and not 0, for all of them.
C15_CubeWinding ==
    lastOp = "createCube" =>
        /\ Cardinality(WindingSigns) = 1
        /\ 0 \notin WindingSigns
        /\ \A n \in 0 .. 11 : \E side \in CubeSides : OnSide(n, side)

\* The cube just created on a fresh program, its first triangle on the face
\* z = -0.5 with a winding that is not 0
C15_Witness ==
    /\ lastOp = "createCube" /\ hist = <<>>
    /\ OnSide(0, <<"z", Rat(-1, 2)>>)
    /\ Winding(0, <<"z", Rat(-1, 2)>>) # I(0)

\* C16 as stated: in the array-based API, addVert and addTri on a new Geo()
\* and Geo.cube() return without a throw; addVert on a new Geo() returns 0,
\* the index of the vertex just added, and Geo.cube() returns a geometry of 8
\* vertices and 36 indices.
C16_ArrayGeoCompletes ==
    /\ call.fn \in {"Geo.addVert", "Geo.addTri", "Geo.cube"} => ~call.res.threw
    /\ (call.fn = "Geo.addVert" /\ ~call.res.threw) => call.res.val.result = 0
    /\ (call.fn = "Geo.cube" /\ ~call.res.threw) =>
          /\ call.res.val.v.defined /\ Len(call.res.val.v.items) = 8
          /\ call.res.val.i.defined /\ Len(call.res.val.i.items) = 36

\* The last addVertex call returned the position of the last vertex (-1
\* stands for no call yet)
ReturnedIsLastPosition == returned = Len(vertices) - 1

\* An addVertex step appends one record, leaves the earlier vertices and the
\* index list as they were, and returns the position of the new record, which
\* is above every index returned before
AddVertexAppends ==
    lastOp' = "addVertex" =>
        /\ Len(vertices') = Len(vertices) + 1
        /\ SubSeq(vertices', 1, Len(vertices)) = vertices
        /\ vertices'[Len(vertices')] \in VertexChoices
        /\ indices' = indices
        /\ returned' = Len(vertices)
        /\ returned' > returned

\* C17: the n-th addVertex call on a geometry appends exactly one record at
\* the end of the vertex buffer and returns n - 1; the returned indices rise
\* strictly, the earlier vertices and the index list are unchanged, and
\* addTriangle calls in between do not change what is returned.
C17_AddVertexReturnsPosition ==
    []ReturnedIsLastPosition /\ [][AddVertexAppends]_vars

\* The third addVertex call, made after an addTriangle call, returned 2
C17_Witness ==
    lastOp = "addVertex" /\ returned = 2 /\ Len(vertices) = 3 /\ Len(indices) = 3

\* C18: multiply(identity(), M) = M and multiply(M, identity()) = M, entry by
\* entry, for every matrix M of integer entries given.
C18_MultiplyIdentity ==
    call.fn = "multiply" =>
        /\ call.arg[1] = Identity => call.res = call.arg[2]
        /\ call.arg[2] = Identity => call.res = call.arg[1]

\* A matrix that is not its own transpose, multiplied by identity() on the right
C18_Witness ==
    /\ call.fn = "multiply"
    /\ call.arg[2] = Identity
    /\ call.arg[1][2] # call.arg[1][5]
    /\ call.res = call.arg[1]

\* The NDC z of the view-space point (0, 0, -d, 1) under the matrix m:
\* multiplyVec4, then z divided by w
NdcZ(m, d) ==
    Val1(MultiplyVec4(m, Vec4(I(0), I(0), Neg(d), I(1))), LAMBDA v : Div(v.z, v.w))

\* Distances from near to far, the two ends included
Distances(near, far) ==
    {near, Div(Add(Mul(I(2), near), far), I(3)), Div(Add(near, far), I(2)), far}

\* C19: under perspective(fov, aspect, near, far) with 0 < near < far, the
\* point (0, 0, -near, 1) has NDC z = -1 and (0, 0, -far, 1) has NDC z = +1,
\* and of two distances d1 < d2 in [near, far] the nearer has the smaller
\* NDC z.
C19_PerspectiveDepth ==
    call.fn = "perspective" =>
        /\ NdcZ(call.res, call.arg.near) = I(-1)
        /\ NdcZ(call.res, call.arg.far) = I(1)
        /\ \A d1 \in Distances(call.arg.near, call.arg.far) :
              \A d2 \in Distances(call.arg.near, call.arg.far) :
                  LtV(d1, d2) => LtV(NdcZ(call.res, d1), NdcZ(call.res, d2))

\* perspective(pi/3, 1, 0.1, 100): the near plane at NDC z = -1 and a point
\* in between strictly inside (-1, 1)
C19_Witness ==
    /\ call.fn = "perspective"
    /\ call.arg = [fov |-> Rat(1, 3), aspect |-> I(1), near |-> Rat(1, 10), far |-> I(100)]
    /\ NdcZ(call.res, Rat(1, 10)) = I(-1)
    /\ LtV(I(-1), NdcZ(call.res, I(50))) /\ LtV(NdcZ(call.res, I(50)), I(1))

\* Whether up is parallel to eye - target, the two being different points
UpParallel(eye, target, up) ==
    /\ eye # target
    /\ Vec3CrossV(up, Vec3Sub(eye, target)) = Vec3Default

\* C20: lookAt with up parallel to eye - target returns a matrix: the right
\* row m[0..3] and the trueUp row m[4..7] are all 0, translation terms
\* included, the forward row m[8..11] holds the unit vector from target to
\* eye and minus its dot product with eye, and the bottom row is (0, 0, 0, 1).
C20_LookAtDegenerate ==
    (call.fn = "lookAt" /\ UpParallel(call.arg.eye, call.arg.target, call.arg.up)) =>
        LET m == call.res
            z == Normalize(Vec3Sub(call.arg.eye, call.arg.target))
        IN  /\ \A k \in 1 .. 8 : m[k] = I(0)
            /\ <<m[9], m[10], m[11]>> = <<z.x, z.y, z.z>>
            /\ z # Vec3Default
            /\ m[12] = NegV(Vec3Dot(z, call.arg.eye))
            /\ <<m[13], m[14], m[15], m[16]>> = <<I(0), I(0), I(0), I(1)>>

\* lookAt((0,2,0), (0,0,0), (0,-2,0)): up parallel to eye - target, the
\* forward row (0, 1, 0, -2) filled in
C20_Witness ==
    /\ call.fn = "lookAt"
    /\ call.arg = [eye |-> Vec3(I(0), I(2), I(0)), target |-> Vec3Default,
                    up |-> Vec3(I(0), I(-2), I(0))]
    /\ <<call.res[9], call.res[10], call.res[11], call.res[12]>> = <<I(0), I(1), I(0), I(-2)>>
    /\ call.res[1] = I(0) /\ call.res[6] = I(0)

\* Whether the integer k is the floor of the number a
IsFloorOf(k, a) == ~LtV(a, I(k)) /\ LtV(a, I(k + 1))

\* C21 as stated: toScreen maps every NDC x in [-1, 1] to a column in
\* 0 .. width - 1 and every NDC y in [-1, 1] to a row in 0 .. height - 1, the
\* ends x = 1 and y = -1 included.
C21_ViewportInRange ==
    call.fn = "toScreen" =>
        /\ call.res.x[1] \in 0 .. Width - 1
        /\ call.res.y[1] \in 0 .. Height - 1

\* C21 amended: toScreen gives the column floor((x+1)*0.5*width) and the row
\* floor((1-y)*0.5*height) and hands z on; for x in [-1, 1) the column is in
\* 0 .. width - 1 and for x = 1 it is width, one past the last column; for y
\* in (-1, 1] the row is in 0 .. height - 1 and for y = -1 it is height.
C21_ViewportHalfOpen ==
    call.fn = "toScreen" =>
        LET ndc == call.arg
            p == call.res
        IN  /\ p.x[2] = 1 /\ p.y[2] = 1 /\ p.z = ndc.z
            /\ IsFloorOf(p.x[1], MulV(MulV(AddV(ndc.x, I(1)), Rat(1, 2)), I(Width)))
            /\ IsFloorOf(p.y[1], MulV(MulV(AddV(I(1), NegV(ndc.y)), Rat(1, 2)), I(Height)))
            /\ IF ndc.x = I(1) THEN p.x = I(Width) ELSE p.x[1] \in 0 .. Width - 1
            /\ IF ndc.y = I(-1) THEN p.y = I(Height) ELSE p.y[1] \in 0 .. Height - 1

\* toScreen of the NDC corner (1, -1): the point (width, height)
C21_Witness ==
    /\ call.fn = "toScreen"
    /\ call.arg.x = I(1) /\ call.arg.y = I(-1)
    /\ call.res.x = I(Width) /\ call.res.y = I(Height)

\* The screen triangles of the draw call d, one per index triple; <<>> when a
\* vertex shader call throws
ScreenTriangles(d) ==
    LET n == Len(d.geometry.indices) \div 3
        shaded == [k \in 1 .. n |-> ShadeVertices(d, 3 * (k - 1))]
    IN  IF \E k \in 1 .. n : \E j \in 1 .. 3 : shaded[k][j].threw THEN <<>>
        ELSE [k \in 1 .. n |-> Triangle(d, shaded[k][1].val, shaded[k][2].val, shaded[k][3].val)]

\* The bounding box of the screen triangle t has no pixel of the framebuffer
BoxOutside(t) ==
    \/ LtV(MaxV(MaxV(t.p0.x, t.p1.x), t.p2.x), I(0))
    \/ LtV(I(Width - 1), MinV(MinV(t.p0.x, t.p1.x), t.p2.x))
    \/ LtV(MaxV(MaxV(t.p0.y, t.p1.y), t.p2.y), I(0))
    \/ LtV(I(Height - 1), MinV(MinV(t.p0.y, t.p1.y), t.p2.y))

WhollyOutside(d) ==
    LET triangles == ScreenTriangles(d) IN
        /\ triangles # <<>>
        /\ \A k \in DOMAIN triangles : BoxOutside(triangles[k])

\* Every pixel the rasteriser visited and every pixel a fragment shader ran
\* for is a cell of the buffers
EventsInRange(events) ==
    \A k \in DOMAIN events :
        events[k].kind \in {"px", "fs"} =>
            /\ events[k].x \in 0 .. Width - 1
            /\ events[k].y \in 0 .. Height - 1
            /\ events[k].y * Width + events[k].x \in 0 .. NumPixels - 1

\* C22: render() visits only pixels with 0 <= x < width and 0 <= y < height,
\* whose index y * width + x is below width * height, wherever the screen
\* positions fall; and a render() of triangles whose bounding boxes lie wholly
\* outside the framebuffer changes no cell of either buffer and makes no
\* fragment shader call.
C22_BoundsClamp ==
    [][lastOp' = "render" =>
          LET last == hist'[Len(hist')] IN
              /\ EventsInRange(last.events)
              /\ WhollyOutside(last.draw) =>
                    /\ buffer' = buffer
                    /\ depthBuffer' = depthBuffer
                    /\ fragCalls' = 0
                    /\ \A k \in DOMAIN last.events : last.events[k].kind = "vs"]_vars

\* A triangle reaching past every edge was drawn and left its mark, and a
\* triangle wholly outside was drawn after it
C22_Witness ==
    /\ Len(hist) = 2 /\ lastOp = "render"
    /\ hist[1].draw.geometry = GeoOutside
    /\ \E k \in DOMAIN hist[1].events : hist[1].events[k].kind = "fs"
    /\ WhollyOutside(hist[2].draw)
    /\ buffer # ClearBuffer
\* The events of one render() replayed on the depth buffer the render began
\* with: a pixel is accepted when it is covered and its depth is strictly
\* less than the depth held for its cell.  An accepted pixel must be followed
\* at once by the fragment shader call for it (or end a render() that threw),
\* any other pixel must not be, and every fragment shader call must follow a
\* pixel.  w.dep is the depth buffer expected, w.touched the accepted cells.
RECURSIVE Replay(_, _, _, _)
Replay(ev, k, threw, w) ==
    IF k > Len(ev) THEN w
    ELSE LET e == ev[k]
             i == e.y * Width + e.x
             thenFs == /\ k < Len(ev) /\ ev[k + 1].kind = "fs"
                       /\ ev[k + 1].x = e.x /\ ev[k + 1].y = e.y
             accept == e.covered /\ LtV(e.z, w.dep[i])
         IN  IF e.kind = "vs" THEN Replay(ev, k + 1, threw, w)
             ELSE IF e.kind = "fs"
             THEN Replay(ev, k + 1, threw, [w EXCEPT !.ok = @ /\ k > 1 /\ ev[k - 1].kind = "px"])
             ELSE IF accept
             THEN Replay(ev, k + 1, threw,
                         [dep |-> [w.dep EXCEPT ![i] = e.z],
                          touched |-> w.touched \cup {i},
                          ok |-> w.ok /\ (thenFs \/ (k = Len(ev) /\ threw))])
             ELSE Replay(ev, k + 1, threw,
                         [w EXCEPT !.ok = @ /\ ~(k < Len(ev) /\ ev[k + 1].kind = "fs")])

FsCount(ev) == Cardinality({k \in DOMAIN ev : ev[k].kind = "fs"})

\* C23: in a render(), a pixel of a triangle's box that is not covered, or
\* whose depth is not strictly less than the depth stored for it, leaves its
\* depth cell and its framebuffer cell as they were and gets no fragment
\* shader call; every accepted pixel gets exactly one.
C23_DiscardUntouched ==
    [][lastOp' = "render" =>
          LET last == hist'[Len(hist')]
              w == Replay(last.events, 1, last.threw,
                          [dep |-> depthBuffer, touched |-> {}, ok |-> TRUE])
          IN  /\ w.ok
              /\ depthBuffer' = w.dep
              /\ \A i \in Pixels \ w.touched : buffer'[i] = buffer[i]
              /\ fragCalls' = FsCount(last.events)]_vars

\* A render() that visited a pixel outside its triangle, rejected a covered
\* pixel whose cell held an intensity, and accepted another
C23_Witness ==
    /\ lastOp = "render" /\ Len(hist) = 2 /\ ~fault
    /\ LET ev == hist[2].events IN
          /\ \E k \in DOMAIN ev : ev[k].kind = "px" /\ ~ev[k].covered
          /\ \E k \in DOMAIN ev :
                /\ ev[k].kind = "px" /\ ev[k].covered /\ ~ev[k].accepted
                /\ buffer[ev[k].y * Width + ev[k].x] # 0
          /\ \E k \in DOMAIN ev : ev[k].kind = "fs"
\* The places of the vertex shader calls in the events ev, in order
VsPlaces(ev) == SelectSeq([k \in 1 .. Len(ev) |-> k], LAMBDA k : ev[k].kind = "vs")

\* The number of vertex shader calls before place k of ev
VsBefore(ev, k) == Cardinality({j \in 1 .. k - 1 : ev[j].kind = "vs"})

\* The screen triangle of the n-th index triple of the draw call d
NthTriangle(d, n) ==
    LET v == ShadeVertices(d, 3 * (n - 1)) IN Triangle(d, v[1].val, v[2].val, v[3].val)

\* The order of the shader calls of the render() recorded as h
ShaderOrder(h) ==
    LET ev == h.events
        d == h.draw
        places == VsPlaces(ev)
    IN  /\ \A j \in DOMAIN places :
              /\ ev[places[j]].index = IndexAt(d.geometry, j - 1)
              /\ IF j % 3 = 1 THEN (j = 1 => places[j] = 1)
                 ELSE places[j] = places[j - 1] + 1
        /\ ~h.threw => Len(places) = 3 * ((Len(d.geometry.indices) + 2) \div 3)
        /\ \A k \in DOMAIN ev :
              ev[k].kind = "fs" =>
                  LET c == VsBefore(ev, k)
                      t == NthTriangle(d, c \div 3)
                  IN  /\ c > 0 /\ c % 3 = 0
                      /\ Covered(Barycentric(ev[k].x, ev[k].y, t.p0, t.p1, t.p2))

\* C24: in one render() the vertex shader calls follow the index list entry
\* by entry, one call per entry also for a vertex named by several triangles;
\* the three calls of a triangle are consecutive, every fragment shader call
\* comes after the three vertex shader calls of the triangle it belongs to
\* and before the first vertex shader call of the next triangle.
C24_ShaderOrder == \A n \in DOMAIN hist : ShaderOrder(hist[n])

\* A render() of the cube that returned: 36 vertex shader calls on 8
\* vertices, and fragment shader calls for two different triangles
C24_Witness ==
    \E n \in DOMAIN hist :
        LET ev == hist[n].events IN
            /\ ~hist[n].threw
            /\ Len(VsPlaces(ev)) = 36
            /\ \E j, k \in DOMAIN ev :
                  /\ ev[j].kind = "fs" /\ ev[k].kind = "fs"
                  /\ VsBefore(ev, j) < VsBefore(ev, k)
            /\ \E j, k \in DOMAIN ev :
                  /\ j < k /\ ev[j].kind = "vs" /\ ev[k].kind = "vs"
                  /\ ev[j].index = ev[k].index
\* a0 * u + a1 * v + a2 * w
Affine(a0, a1, a2, b) == AddV(AddV(MulV(a0, b.u), MulV(a1, b.v)), MulV(a2, b.w))

\* The value the weights b give for the name k of the vertex outputs out
AffineValue(out, k, b) ==
    LET a0 == out[1].vary[k]
        a1 == Get(out[2].vary, k)
        a2 == Get(out[3].vary, k)
    IN  IF a0.kind = "number" THEN Num(Affine(a0.num, a1.num, a2.num, b))
        ELSE V3(Vec3(Affine(a0.vec.x, a1.vec.x, a2.vec.x, b),
                     Affine(a0.vec.y, a1.vec.y, a2.vec.y, b),
                     Affine(a0.vec.z, a1.vec.z, a2.vec.z, b)))

\* The fragment f at pixel (x, y) carries the affine blend of its triangle's
\* depths and named values under the barycentric weights of (x, y), and the
\* values of a vertex whose screen position is (x, y)
AffineFragment(f, x, y) ==
    LET b == Barycentric(x, y, f.p[1], f.p[2], f.p[3]) IN
        /\ f.z = Affine(f.p[1].z, f.p[2].z, f.p[3].z, b)
        /\ DOMAIN f.vary = DOMAIN f.out[1].vary
        /\ \A k \in DOMAIN f.vary : f.vary[k] = AffineValue(f.out, k, b)
        /\ \A j \in 1 .. 3 :
              (f.p[j].x = I(x) /\ f.p[j].y = I(y)) =>
                  /\ f.z = f.p[j].z
                  /\ \A k \in DOMAIN f.vary : f.vary[k] = f.out[j].vary[k]

\* C25: every fragment whose three vertex outputs carry the same names hands
\* the fragment shader, for each name, a0*u + a1*v + a2*w (per component for
\* a Vec3) with the weights (u, v, w) that gave its depth; at a pixel that is
\* the screen position of a vertex the depth and every named value are that
\* vertex's.
C25_AffineVaryings ==
    \A i \in Pixels : \A k \in 1 .. Len(frags[i]) :
        (frags[i][k].interp /\ frags[i][k].missing = {}) =>
            AffineFragment(frags[i][k], i % Width, i \div Width)

\* Fragments with a scalar and a Vec3 value, one at the screen position of a
\* vertex and one strictly inside its triangle, the triangle's depths and
\* shades differing
C25_Witness ==
    \E i, j \in Pixels :
        /\ frags[i] # <<>> /\ frags[j] # <<>>
        /\ LET f == frags[i][1]  g == frags[j][1] IN
              /\ f.interp /\ f.missing = {} /\ DOMAIN f.vary = {"normal", "shade"}
              /\ f.p[2].x = I(i % Width) /\ f.p[2].y = I(i \div Width)
              /\ f.vary.shade = f.out[2].vary.shade
              /\ f.out[1].vary.shade # f.out[2].vary.shade
              /\ f.p[1].z # f.p[2].z
              /\ g.interp /\ g.p = f.p
              /\ LET b == Barycentric(j % Width, j \div Width, g.p[1], g.p[2], g.p[3])
                 IN  LtV(I(0), b.u) /\ LtV(I(0), b.v) /\ LtV(I(0), b.w)
\* Fragment m of pixel i has the depth of an earlier fragment of the pixel
LaterAtEqualDepth(i, m) ==
    \E k \in 1 .. m - 1 : IsFinite(frags[i][k].z) /\ frags[i][k].z = frags[i][m].z

\* The fragments of pixel i the depth test accepted
AcceptedAt(i) == {k \in 1 .. Len(frags[i]) : frags[i][k].accepted}

\* The fragment shader calls made for pixel i since clear()
FsCallsAt(i) ==
    {<<n, k>> \in UNION {{n} \X DOMAIN hist[n].events : n \in DOMAIN hist} :
        LET e == hist[n].events[k] IN e.kind = "fs" /\ e.y * Width + e.x = i}

\* C26: a fragment with the depth of a fragment drawn earlier at its pixel,
\* by an earlier triangle of the same render() or by an earlier render()
\* since clear(), is discarded: until a nearer fragment is accepted the
\* framebuffer keeps the intensity of the last fragment accepted before it,
\* and no fragment shader call is made for it.
C26_FirstDrawnWins ==
    \A i \in Pixels :
        /\ \A m \in 1 .. Len(frags[i]) :
              LaterAtEqualDepth(i, m) =>
                  /\ ~frags[i][m].accepted
                  /\ \A a \in AcceptedAt(i) :
                        (frags[i][a].ok /\ a < m /\ \A b \in AcceptedAt(i) : b <= a) =>
                            buffer[i] = frags[i][a].c
        /\ Cardinality(FsCallsAt(i)) =
               Cardinality({a \in AcceptedAt(i) : frags[i][a].interp})

\* A pixel drawn three times at one depth with three intensities, twice by
\* one render() and once by the next: it holds the first
C26_Witness ==
    /\ Len(hist) = 2 /\ Len(hist[1].draw.geometry.indices) = 6
    /\ \E i \in Pixels :
          /\ Len(frags[i]) = 3
          /\ IsFinite(frags[i][1].z)
          /\ frags[i][2].z = frags[i][1].z /\ frags[i][3].z = frags[i][1].z
          /\ frags[i][1].accepted /\ frags[i][1].ok
          /\ frags[i][2].c # frags[i][1].c /\ frags[i][3].c # frags[i][1].c
          /\ buffer[i] = frags[i][1].c
          /\ Cardinality(FsCallsAt(i)) = 1
\* C27: in every state reached from construction by clear() and render()
\* calls, a pixel whose depth cell holds +Infinity has framebuffer value 0.
C27_InfiniteDepthIsBlack ==
    \A i \in Pixels : depthBuffer[i] = Infinity => buffer[i] = 0

\* After two render() calls that returned: a pixel no fragment was accepted
\* for, a pixel holding an intensity at a finite depth, and a pixel whose
\* second fragment was rejected
C27_Witness ==
    /\ lastOp = "render" /\ Len(hist) = 2 /\ ~hist[1].threw /\ ~hist[2].threw
    /\ \E i \in Pixels : frags[i] = <<>> /\ depthBuffer[i] = Infinity /\ buffer[i] = 0
    /\ \E i \in Pixels : buffer[i] # 0 /\ IsFinite(depthBuffer[i])
    /\ \E i \in Pixels : Len(frags[i]) = 2 /\ ~frags[i][2].accepted
\* The buffers a new renderer holds after the first k render() calls of h
RECURSIVE FromNew(_, _)
FromNew(h, k) ==
    IF k = 0 THEN [buffer |-> ClearBuffer, depth |-> ClearDepth, frags |-> NoFrags]
    ELSE LET before == FromNew(h, k - 1)
         IN  RenderOp(before.buffer, before.depth, before.frags, h[k].draw)

\* The buffers are those a new renderer holds after the render() calls made
\* since the last clear()
HoldsFromNew ==
    LET new == FromNew(hist, Len(hist)) IN
        /\ buffer = new.buffer
        /\ depthBuffer = new.depth

\* C28: at all times the buffers are those a new renderer holds after the
\* render() calls made since the last clear(), or since construction when
\* clear() was never called: a new renderer and a cleared one hold the same
\* buffers, and what was drawn before a clear() leaves no trace in the frames
\* drawn after it.
C28_ClearIsFresh == []HoldsFromNew

\* A frame drawn by clear() and render() after an earlier frame
C28_Witness ==
    /\ dirtyCleared /\ lastOp = "render" /\ Len(hist) = 1
    /\ buffer # ClearBuffer /\ depthBuffer # ClearDepth
\* The screen point of the class-based renderer for the clip position v, as
\* [column, row, depth]
ClassScreenPoint(v) ==
    LET p == ToScreenV(PerspectiveDivideV(Vec4(v[1], v[2], v[3], v[4])))
    IN  <<p.x, p.y, p.z>>

\* C29: toScreen of the array-based renderer gives for every clip position
\* [x, y, z, w] the screen point that perspectiveDivide followed by toScreen
\* of the class-based renderer gives, also when |w| < 0.0001.
C29_SameScreenPoint ==
    call.fn = "Renderer.toScreen" => call.res = ClassScreenPoint(call.arg)

\* The two agree on every clip position with |w| >= 0.0001.
C29_SameOffGuard ==
    (call.fn = "Renderer.toScreen" /\ ~Tiny(call.arg[4])) =>
        call.res = ClassScreenPoint(call.arg)

\* A clip position with w = 0 that the class-based renderer maps inside the
\* framebuffer and away from its first pixel
C29_Witness ==
    /\ call.fn = "Renderer.toScreen" /\ call.arg[4] = I(0)
    /\ call.res = <<I(0), I(0), I(0)>>
    /\ LtV(I(0), ClassScreenPoint(call.arg)[1])
====
